---------------------------- MODULE Spec2Model ----------------------------
(***************************************************************************)
(* The session-summary pipeline of the Claude session viewer:              *)
(*   SessionSummarizer (src/backend/session_summarizer.py): the transcript *)
(*     reader, the conversation extractor and the in-memory summary cache; *)
(*   ClaudeViewer (src/backend/claude_integration.py): prompt building,    *)
(*     the call of the external summarizer and the parsing of its output;  *)
(*   SummaryStorage (src/backend/summary_storage.py): the per-session      *)
(*     JSON file of stored summaries;                                      *)
(*   ViewerHandler (src/backend/viewer.py): the HTTP handlers that drive   *)
(*     them.                                                               *)
(*                                                                         *)
(* A Python str is a sequence of Unicode code points (naturals), so that   *)
(* len, slicing, strip, join, split and substring tests are computed the   *)
(* way Python computes them.  A Python dict is a record that carries every *)
(* key the code reads; a key the dict lacks holds the default the code     *)
(* passes to .get().  Error messages, which no code inspects, are TLA+     *)
(* strings.                                                                *)
(***************************************************************************)
EXTENDS Integers, Sequences, FiniteSets, TLC

VARIABLES
    files,        \* the session files under CLAUDE_PROJECTS_PATH, by path
    store,        \* the summary files under SUMMARIES_PATH, by path
    cache,        \* SessionSummarizer.cache: cache key -> cached result
    initialized,  \* ClaudeViewer._initialized
    now,          \* the wall clock, in ticks: the last value datetime.now() gave
    extCalls,     \* how many times the external summarizer was run (history)
    last,         \* the last operation: its arguments, result and effects (history)
    prev,         \* per (directory, session_id, type): the result dict of the last
                  \* generate_summary request since the last clear_cache, as
                  \* the handler left it, and its runs of the summarizer (history)
    nops,         \* how many operations were performed (history, bounds the run)
    arg,          \* the argument of the function applied (function specifications)
    ret,          \* its result
    pc            \* "call" before the function was applied, "done" after

vars == <<files, store, cache, initialized, now, extCalls, last, prev, nops, arg, ret, pc>>

-----------------------------------------------------------------------------
(* Bounds of the model. *)

\* the longest session file of the reader specification, in lines
MaxLines == 3
\* the longest event sequence of the extractor specification
MaxEvents == 3
\* how far the conversation lengths of the prompt specification lie around
\* max_conv_length
MaxExtra == 3
\* how many alphabet rotations the prompt specification tries
MaxOffset == 2

-----------------------------------------------------------------------------
(* Python str operations on sequences of code points. *)

NL == 10
SP == 32

\* str.isspace() of one character: the characters str.strip() removes
IsSpace(c) ==
    c \in ({9, 10, 11, 12, 13, 28, 29, 30, 31, 32, 133, 160, 5760, 8232, 8233, 8239, 8287, 12288}
            \cup (8192..8202))

\* not s.strip(): s is empty or all whitespace
IsBlank(s) == \A i \in 1..Len(s) : IsSpace(s[i])

SetMin(S) == CHOOSE x \in S : \A y \in S : x <= y

\* s.strip()
Strip(s) ==
    IF IsBlank(s) THEN <<>>
    ELSE SubSeq(s,
                CHOOSE i \in 1..Len(s) :
                    ~IsSpace(s[i]) /\ \A j \in 1..(i - 1) : IsSpace(s[j]),
                CHOOSE i \in 1..Len(s) :
                    ~IsSpace(s[i]) /\ \A j \in (i + 1)..Len(s) : IsSpace(s[j]))

\* sep.join(parts)
RECURSIVE Join(_, _)
Join(parts, sep) ==
    IF parts = <<>> THEN <<>>
    ELSE IF Len(parts) = 1 THEN parts[1]
    ELSE parts[1] \o sep \o Join(Tail(parts), sep)

\* s.startswith(p)
StartsWith(s, p) == Len(s) >= Len(p) /\ SubSeq(s, 1, Len(p)) = p

\* p in s
Contains(s, p) ==
    \E i \in 0..(Len(s) - Len(p)) : SubSeq(s, i + 1, i + Len(p)) = p

\* s.count(p) for a one-character p
CountChar(s, c) == Cardinality({i \in 1..Len(s) : s[i] = c})

\* s.split('\n')
RECURSIVE SplitLines(_)
SplitFrom(s, cut) ==
    <<SubSeq(s, 1, cut - 1)>> \o SplitLines(SubSeq(s, cut + 1, Len(s)))
SplitLines(s) ==
    IF \A i \in 1..Len(s) : s[i] # NL THEN <<s>>
    ELSE SplitFrom(s, CHOOSE i \in 1..Len(s) : s[i] = NL /\ \A j \in 1..(i - 1) : s[j] # NL)

-----------------------------------------------------------------------------
(* Paths.  pathlib joins the components with "/", so a path is modelled as *)
(* the string below the root directory.                                    *)

SLASH == 47
COLON == 58

\* ".jsonl"
JsonlSuffix == <<46, 106, 115, 111, 110, 108>>

\* CLAUDE_PROJECTS_PATH / directory / f"{session_id}.jsonl"
SessionFilePath(directory, session_id) ==
    directory \o <<SLASH>> \o session_id \o JsonlSuffix

-----------------------------------------------------------------------------
(* Transcript events.                                                      *)
(* A line of a session file is blank, a JSON text, a text that is no JSON, *)
(* or bytes that are no UTF-8.  A JSON text holds a dict (an event) or     *)
(* another JSON value.  message is "dict", "missing" (no such key) or      *)
(* "null"; content.tag is "str", "list" or "missing".                      *)

NoContent == [tag |-> "missing", str |-> <<>>, blocks |-> <<>>]
StrContent(s) == [tag |-> "str", str |-> s, blocks |-> <<>>]
ListContent(bs) == [tag |-> "list", str |-> <<>>, blocks |-> bs]

TextBlock(s) == [type |-> "text", text |-> s]
OtherBlock(t) == [type |-> t, text |-> <<>>]

Event(t, c) == [isdict |-> TRUE, type |-> t, message |-> "dict", content |-> c]
EventNoMessage(t) == [isdict |-> TRUE, type |-> t, message |-> "missing", content |-> NoContent]
EventNullMessage(t) == [isdict |-> TRUE, type |-> t, message |-> "null", content |-> NoContent]
\* a JSON value that is no dict, such as 42
NonDict == [isdict |-> FALSE, type |-> "", message |-> "missing", content |-> NoContent]

JsonLine(v) == [kind |-> "json", value |-> v]
BadLine == [kind |-> "bad", value |-> NonDict]
BlankLine == [kind |-> "blank", value |-> NonDict]
BytesLine == [kind |-> "bytes", value |-> NonDict]

NoFile == [exists |-> FALSE, lines |-> <<>>]
FileOf(ls) == [exists |-> TRUE, lines |-> ls]

\* json.loads(line): the value, or JSONDecodeError
JsonLoads(line) == [ok |-> line.kind = "json", value |-> line.value]

\* open(file_path, 'r', encoding='utf-8') and the iteration over its lines:
\* a line that is no UTF-8 raises UnicodeDecodeError out of the loop
Decodable(ls) == \A i \in 1..Len(ls) : ls[i].kind # "bytes"

\* the loop of _load_session_file over the lines of the file
RECURSIVE ParseLines(_)
ParseLines(ls) ==
    IF ls = <<>> THEN <<>>
    ELSE LET line == Head(ls)
             rest == ParseLines(Tail(ls))
         IN  IF line.kind = "blank" THEN rest
             ELSE IF JsonLoads(line).ok THEN <<JsonLoads(line).value>> \o rest
             ELSE rest

\* a plausible slip: an absent file is loaded as a transcript without events
LoadFileLenient(f) ==
    IF ~f.exists THEN [ok |-> TRUE, messages |-> <<>>]
    ELSE IF ~Decodable(f.lines) THEN [ok |-> FALSE, messages |-> <<>>]
    ELSE [ok |-> TRUE, messages |-> ParseLines(f.lines)]

\* SessionSummarizer._load_session_file: ok = FALSE stands for None
LoadFile(f) ==
    IF ~f.exists THEN [ok |-> FALSE, messages |-> <<>>]
    ELSE IF ~Decodable(f.lines) THEN [ok |-> FALSE, messages |-> <<>>]
    ELSE [ok |-> TRUE, messages |-> ParseLines(f.lines)]

_load_session_file(fs, directory, session_id) ==
    LoadFile(fs[SessionFilePath(directory, session_id)])

-----------------------------------------------------------------------------
(* The conversation extractor. *)

\* repr() of a str whose characters are letters, spaces and newlines
RECURSIVE PyReprChars(_)
PyReprChars(s) ==
    IF s = <<>> THEN <<>>
    ELSE (IF Head(s) = NL THEN <<92, 110>> ELSE <<Head(s)>>) \o PyReprChars(Tail(s))

QUOTE == 39
PyReprStr(s) == <<QUOTE>> \o PyReprChars(s) \o <<QUOTE>>

BlockTypeName(t) ==
    CASE t = "text" -> <<116, 101, 120, 116>>
      [] t = "tool_use" -> <<116, 111, 111, 108, 95, 117, 115, 101>>
      [] OTHER -> <<116, 111, 111, 108, 95, 114, 101, 115, 117, 108, 116>>

\* repr() of a block: {'type': 'text', 'text': '...'} or {'type': 'tool_use'}
PyReprBlock(b) ==
    <<123, 39, 116, 121, 112, 101, 39, 58, 32>> \o PyReprStr(BlockTypeName(b.type))
    \o (IF b.type = "text"
        THEN <<44, 32, 39, 116, 101, 120, 116, 39, 58, 32>> \o PyReprStr(b.text)
        ELSE <<>>)
    \o <<125>>

\* repr() of a list of blocks, which is what an f-string makes of it
PyReprList(bs) ==
    <<91>> \o Join([i \in 1..Len(bs) |-> PyReprBlock(bs[i])], <<44, 32>>) \o <<93>>

\* 'U+1F464 Usuario: '
UserTag ==
    <<128100, 32, 85, 115, 117, 225, 114, 105, 111, 58, 32>>

\* 'U+1F916 Claude: '
ClaudeTag ==
    <<129302, 32, 67, 108, 97, 117, 100, 101, 58, 32>>

\* the text_parts of an assistant event: the text of the blocks tagged "text"
RECURSIVE TextParts(_)
TextParts(bs) ==
    IF bs = <<>> THEN <<>>
    ELSE (IF Head(bs).type = "text" THEN <<Head(bs).text>> ELSE <<>>) \o TextParts(Tail(bs))

\* the branch of _extract_conversation for a user event: the parts it appends
UserParts(msg) ==
    LET content == msg.content
    IN  CASE content.tag = "str" ->
                IF content.str # <<>> THEN <<UserTag \o content.str>> ELSE <<>>
          [] content.tag = "list" ->
                IF content.blocks # <<>> THEN <<UserTag \o PyReprList(content.blocks)>> ELSE <<>>
          [] OTHER -> <<>>

\* the branch for an assistant event
AssistantParts(msg) ==
    LET content   == msg.content
        text_parts == CASE content.tag = "list" -> TextParts(content.blocks)
                        [] content.tag = "str" -> <<content.str>>
                        [] OTHER -> <<>>
        full_text == Join(text_parts, <<NL>>)
    IN  IF ~IsBlank(full_text) THEN <<ClaudeTag \o full_text>> ELSE <<>>

\* one iteration of the loop: msg.get on a value that is no dict, and
\* message_data.get on a null message, raise and the event is skipped
EventParts(msg) ==
    IF ~msg.isdict THEN <<>>
    ELSE IF msg.type \notin {"user", "assistant"} THEN <<>>
    ELSE IF msg.message = "null" THEN <<>>
    ELSE IF msg.type = "user" THEN UserParts(msg)
    ELSE AssistantParts(msg)

\* a plausible slip: each turn is put in front of the turns found so far
RECURSIVE PartsNewestFirst(_)
PartsNewestFirst(messages) ==
    IF messages = <<>> THEN <<>>
    ELSE PartsNewestFirst(Tail(messages)) \o EventParts(Head(messages))

RECURSIVE ConversationParts(_)
ConversationParts(messages) ==
    IF messages = <<>> THEN <<>>
    ELSE EventParts(Head(messages)) \o ConversationParts(Tail(messages))

\* SessionSummarizer._extract_conversation
_extract_conversation(messages) == Join(ConversationParts(messages), <<NL, NL>>)

-----------------------------------------------------------------------------
(* The prompt of the summary request (ClaudeViewer._create_summary_prompt). *)
(* Each head is the text of the prompt up to the conversation:              *)
(* base_instruction, a blank line, the format instruction of the type, a    *)
(* blank line and the line "Conversa para analise:".                        *)

\* base_instruction, the format instruction of "conciso" and "Conversa para analise:", 378 characters
PromptHeadConciso ==
    <<65, 110, 97, 108, 105, 115, 101, 32, 101, 115, 116, 97, 32, 99, 111, 110, 118, 101, 114,
    115, 97, 32, 100, 111, 32, 67, 108, 97, 117, 100, 101, 32, 67, 111, 100, 101, 32, 101, 32,
    99, 114, 105, 101, 32, 117, 109, 32, 114, 101, 115, 117, 109, 111, 32, 101, 115, 116, 114,
    117, 116, 117, 114, 97, 100, 111, 32, 101, 109, 32, 112, 111, 114, 116, 117, 103, 117, 234,
    115, 32, 98, 114, 97, 115, 105, 108, 101, 105, 114, 111, 46, 10, 10, 10, 70, 111, 114, 109,
    97, 116, 111, 32, 67, 79, 78, 67, 73, 83, 79, 32, 40, 109, 225, 120, 105, 109, 111, 32, 50,
    48, 32, 112, 97, 108, 97, 118, 114, 97, 115, 32, 97, 112, 101, 110, 97, 115, 41, 58, 10,
    128203, 32, 42, 42, 67, 111, 110, 116, 101, 120, 116, 111, 42, 42, 58, 32, 91, 116, 105,
    112, 111, 32, 100, 101, 32, 112, 114, 111, 106, 101, 116, 111, 47, 112, 114, 111, 98, 108,
    101, 109, 97, 93, 10, 127919, 32, 42, 42, 79, 98, 106, 101, 116, 105, 118, 111, 42, 42, 58,
    32, 91, 111, 32, 113, 117, 101, 32, 102, 111, 105, 32, 115, 111, 108, 105, 99, 105, 116,
    97, 100, 111, 93, 10, 9989, 32, 42, 42, 82, 101, 115, 117, 108, 116, 97, 100, 111, 42, 42,
    58, 32, 91, 111, 32, 113, 117, 101, 32, 102, 111, 105, 32, 105, 109, 112, 108, 101, 109,
    101, 110, 116, 97, 100, 111, 47, 114, 101, 115, 111, 108, 118, 105, 100, 111, 93, 10,
    128295, 32, 42, 42, 84, 101, 99, 110, 111, 108, 111, 103, 105, 97, 115, 42, 42, 58, 32, 91,
    112, 114, 105, 110, 99, 105, 112, 97, 105, 115, 32, 102, 101, 114, 114, 97, 109, 101, 110,
    116, 97, 115, 93, 10, 10, 82, 101, 115, 117, 109, 111, 32, 117, 108, 116, 114, 97, 45, 99,
    111, 110, 99, 105, 115, 111, 32, 101, 109, 32, 50, 48, 32, 112, 97, 108, 97, 118, 114, 97,
    115, 58, 10, 10, 67, 111, 110, 118, 101, 114, 115, 97, 32, 112, 97, 114, 97, 32, 97, 110,
    225, 108, 105, 115, 101, 58, 10>>

\* the same for "detalhado", 572 characters
PromptHeadDetalhado ==
    <<65, 110, 97, 108, 105, 115, 101, 32, 101, 115, 116, 97, 32, 99, 111, 110, 118, 101, 114,
    115, 97, 32, 100, 111, 32, 67, 108, 97, 117, 100, 101, 32, 67, 111, 100, 101, 32, 101, 32,
    99, 114, 105, 101, 32, 117, 109, 32, 114, 101, 115, 117, 109, 111, 32, 101, 115, 116, 114,
    117, 116, 117, 114, 97, 100, 111, 32, 101, 109, 32, 112, 111, 114, 116, 117, 103, 117, 234,
    115, 32, 98, 114, 97, 115, 105, 108, 101, 105, 114, 111, 46, 10, 10, 10, 70, 111, 114, 109,
    97, 116, 111, 32, 68, 69, 84, 65, 76, 72, 65, 68, 79, 32, 40, 109, 225, 120, 105, 109, 111,
    32, 52, 48, 48, 32, 112, 97, 108, 97, 118, 114, 97, 115, 41, 58, 10, 128203, 32, 42, 42,
    67, 111, 110, 116, 101, 120, 116, 111, 32, 67, 111, 109, 112, 108, 101, 116, 111, 42, 42,
    58, 32, 91, 115, 105, 116, 117, 97, 231, 227, 111, 32, 101, 32, 98, 97, 99, 107, 103, 114,
    111, 117, 110, 100, 32, 100, 111, 32, 112, 114, 111, 106, 101, 116, 111, 93, 10, 127919,
    32, 42, 42, 79, 98, 106, 101, 116, 105, 118, 111, 115, 42, 42, 58, 32, 91, 116, 111, 100,
    111, 115, 32, 111, 115, 32, 103, 111, 97, 108, 115, 32, 101, 32, 114, 101, 113, 117, 105,
    115, 105, 116, 111, 115, 32, 100, 105, 115, 99, 117, 116, 105, 100, 111, 115, 93, 10, 9881,
    65039, 32, 42, 42, 73, 109, 112, 108, 101, 109, 101, 110, 116, 97, 231, 227, 111, 42, 42,
    58, 32, 91, 100, 101, 116, 97, 108, 104, 101, 115, 32, 116, 233, 99, 110, 105, 99, 111,
    115, 44, 32, 97, 114, 113, 117, 105, 116, 101, 116, 117, 114, 97, 44, 32, 100, 101, 99,
    105, 115, 245, 101, 115, 93, 10, 9989, 32, 42, 42, 82, 101, 115, 117, 108, 116, 97, 100,
    111, 115, 42, 42, 58, 32, 91, 116, 117, 100, 111, 32, 113, 117, 101, 32, 102, 111, 105, 32,
    101, 110, 116, 114, 101, 103, 117, 101, 32, 101, 32, 102, 117, 110, 99, 105, 111, 110, 97,
    108, 105, 100, 97, 100, 101, 115, 93, 10, 128295, 32, 42, 42, 84, 101, 99, 110, 111, 108,
    111, 103, 105, 97, 115, 42, 42, 58, 32, 91, 115, 116, 97, 99, 107, 32, 99, 111, 109, 112,
    108, 101, 116, 111, 32, 117, 116, 105, 108, 105, 122, 97, 100, 111, 93, 10, 128161, 32, 42,
    42, 73, 110, 115, 105, 103, 104, 116, 115, 42, 42, 58, 32, 91, 97, 112, 114, 101, 110, 100,
    105, 122, 97, 100, 111, 115, 32, 101, 32, 100, 101, 99, 105, 115, 245, 101, 115, 32, 105,
    109, 112, 111, 114, 116, 97, 110, 116, 101, 115, 93, 10, 128260, 32, 42, 42, 80, 114, 243,
    120, 105, 109, 111, 115, 32, 80, 97, 115, 115, 111, 115, 42, 42, 58, 32, 91, 115, 101, 32,
    109, 101, 110, 99, 105, 111, 110, 97, 100, 111, 115, 32, 110, 97, 32, 99, 111, 110, 118,
    101, 114, 115, 97, 93, 10, 10, 82, 101, 115, 117, 109, 111, 32, 100, 101, 116, 97, 108,
    104, 97, 100, 111, 58, 10, 10, 67, 111, 110, 118, 101, 114, 115, 97, 32, 112, 97, 114, 97,
    32, 97, 110, 225, 108, 105, 115, 101, 58, 10>>

\* the same for "bullet_points", 377 characters
PromptHeadBulletPoints ==
    <<65, 110, 97, 108, 105, 115, 101, 32, 101, 115, 116, 97, 32, 99, 111, 110, 118, 101, 114,
    115, 97, 32, 100, 111, 32, 67, 108, 97, 117, 100, 101, 32, 67, 111, 100, 101, 32, 101, 32,
    99, 114, 105, 101, 32, 117, 109, 32, 114, 101, 115, 117, 109, 111, 32, 101, 115, 116, 114,
    117, 116, 117, 114, 97, 100, 111, 32, 101, 109, 32, 112, 111, 114, 116, 117, 103, 117, 234,
    115, 32, 98, 114, 97, 115, 105, 108, 101, 105, 114, 111, 46, 10, 10, 10, 70, 111, 114, 109,
    97, 116, 111, 32, 66, 85, 76, 76, 69, 84, 32, 80, 79, 73, 78, 84, 83, 58, 10, 128203, 32,
    42, 42, 67, 111, 110, 116, 101, 120, 116, 111, 42, 42, 58, 10, 32, 32, 32, 8226, 32, 91,
    112, 111, 110, 116, 111, 32, 49, 93, 10, 32, 32, 32, 8226, 32, 91, 112, 111, 110, 116, 111,
    32, 50, 93, 10, 10, 127919, 32, 42, 42, 79, 98, 106, 101, 116, 105, 118, 111, 115, 42, 42,
    58, 10, 32, 32, 32, 8226, 32, 91, 111, 98, 106, 101, 116, 105, 118, 111, 32, 49, 93, 10,
    32, 32, 32, 8226, 32, 91, 111, 98, 106, 101, 116, 105, 118, 111, 32, 50, 93, 10, 10, 9989,
    32, 42, 42, 73, 109, 112, 108, 101, 109, 101, 110, 116, 97, 231, 245, 101, 115, 42, 42, 58,
    10, 32, 32, 32, 8226, 32, 91, 105, 109, 112, 108, 101, 109, 101, 110, 116, 97, 231, 227,
    111, 32, 49, 93, 10, 32, 32, 32, 8226, 32, 91, 105, 109, 112, 108, 101, 109, 101, 110, 116,
    97, 231, 227, 111, 32, 50, 93, 10, 10, 128295, 32, 42, 42, 84, 101, 99, 110, 111, 108, 111,
    103, 105, 97, 115, 42, 42, 58, 10, 32, 32, 32, 8226, 32, 91, 116, 101, 99, 104, 32, 49, 93,
    10, 32, 32, 32, 8226, 32, 91, 116, 101, 99, 104, 32, 50, 93, 10, 10, 76, 105, 115, 116, 97,
    32, 101, 115, 116, 114, 117, 116, 117, 114, 97, 100, 97, 58, 10, 10, 67, 111, 110, 118,
    101, 114, 115, 97, 32, 112, 97, 114, 97, 32, 97, 110, 225, 108, 105, 115, 101, 58, 10>>

\* the same for any other summary_type, 255 characters
PromptHeadDefault ==
    <<65, 110, 97, 108, 105, 115, 101, 32, 101, 115, 116, 97, 32, 99, 111, 110, 118, 101, 114,
    115, 97, 32, 100, 111, 32, 67, 108, 97, 117, 100, 101, 32, 67, 111, 100, 101, 32, 101, 32,
    99, 114, 105, 101, 32, 117, 109, 32, 114, 101, 115, 117, 109, 111, 32, 101, 115, 116, 114,
    117, 116, 117, 114, 97, 100, 111, 32, 101, 109, 32, 112, 111, 114, 116, 117, 103, 117, 234,
    115, 32, 98, 114, 97, 115, 105, 108, 101, 105, 114, 111, 46, 10, 10, 10, 70, 111, 114, 109,
    97, 116, 111, 32, 40, 109, 225, 120, 105, 109, 111, 32, 50, 48, 48, 32, 112, 97, 108, 97,
    118, 114, 97, 115, 41, 58, 10, 128203, 32, 42, 42, 67, 111, 110, 116, 101, 120, 116, 111,
    42, 42, 58, 32, 91, 112, 114, 111, 106, 101, 116, 111, 47, 112, 114, 111, 98, 108, 101,
    109, 97, 93, 10, 127919, 32, 42, 42, 79, 98, 106, 101, 116, 105, 118, 111, 42, 42, 58, 32,
    91, 115, 111, 108, 105, 99, 105, 116, 97, 231, 227, 111, 93, 10, 9989, 32, 42, 42, 82, 101,
    115, 117, 108, 116, 97, 100, 111, 42, 42, 58, 32, 91, 105, 109, 112, 108, 101, 109, 101,
    110, 116, 97, 231, 227, 111, 93, 10, 10, 82, 101, 115, 117, 109, 111, 58, 10, 10, 67, 111,
    110, 118, 101, 114, 115, 97, 32, 112, 97, 114, 97, 32, 97, 110, 225, 108, 105, 115, 101,
    58, 10>>

\* '[...conversa truncada para mostrar as partes mais recentes...]\n'
TruncationMarker ==
    <<91, 46, 46, 46, 99, 111, 110, 118, 101, 114, 115, 97, 32, 116, 114, 117, 110, 99, 97,
    100, 97, 32, 112, 97, 114, 97, 32, 109, 111, 115, 116, 114, 97, 114, 32, 97, 115, 32, 112,
    97, 114, 116, 101, 115, 32, 109, 97, 105, 115, 32, 114, 101, 99, 101, 110, 116, 101, 115,
    46, 46, 46, 93, 10>>

PromptHead(summary_type) ==
    CASE summary_type = "conciso" -> PromptHeadConciso
      [] summary_type = "detalhado" -> PromptHeadDetalhado
      [] summary_type = "bullet_points" -> PromptHeadBulletPoints
      [] OTHER -> PromptHeadDefault

\* max_conv_length
max_conv_length == 8000

\* conversation_text[-max_conv_length:]
LastChars(s, n) == SubSeq(s, Len(s) - n + 1, Len(s))

\* a plausible slip: the leading window conversation_text[:max_conv_length]
TruncatedLeading(conversation_text) ==
    IF Len(conversation_text) > max_conv_length
    THEN TruncationMarker \o SubSeq(conversation_text, 1, max_conv_length)
    ELSE conversation_text

\* a plausible slip: >= for > in the test of the length
TruncatedAtLimit(conversation_text) ==
    IF Len(conversation_text) >= max_conv_length
    THEN TruncationMarker \o LastChars(conversation_text, max_conv_length)
    ELSE conversation_text

\* the conversation as the prompt carries it: cut to its last max_conv_length
\* characters, after the truncation marker, when it is longer than that
Truncated(conversation_text) ==
    IF Len(conversation_text) > max_conv_length
    THEN TruncationMarker \o LastChars(conversation_text, max_conv_length)
    ELSE conversation_text

\* ClaudeViewer._create_summary_prompt
_create_summary_prompt(conversation_text, summary_type) ==
    PromptHead(summary_type) \o Truncated(conversation_text) \o <<NL>>

-----------------------------------------------------------------------------
(* Specifications of the pure functions: the argument is drawn from a      *)
(* bounded set, one step applies the function.  The state of the server is *)
(* not involved and stays empty.                                           *)

mainvars == <<files, store, cache, initialized, now, extCalls, last, prev, nops>>

NoServer ==
    /\ files = <<>>
    /\ store = <<>>
    /\ cache = <<>>
    /\ initialized = FALSE
    /\ now = 0
    /\ extCalls = 0
    /\ last = <<>>
    /\ prev = <<>>
    /\ nops = 0

\* all sequences over S of length at most n
SeqsUpTo(S, n) == UNION {[1..k -> S] : k \in 0..n}

LetterA == 97
LetterB == 98

\* the contents the events of the function specifications carry
SampleContents ==
    { NoContent,
      StrContent(<<>>),
      StrContent(<<LetterA>>),
      StrContent(<<SP>>),
      ListContent(<<TextBlock(<<LetterA>>)>>),
      ListContent(<<OtherBlock("tool_use")>>),
      ListContent(<<TextBlock(<<LetterA>>), OtherBlock("tool_result"), TextBlock(<<LetterB>>)>>) }

SampleEvents ==
    {Event(t, c) : t \in {"user", "assistant"}, c \in SampleContents}
    \cup {Event("system", StrContent(<<LetterA>>)), EventNullMessage("assistant"), NonDict}

(* ---- the transcript reader ---- *)

ReaderLines ==
    { JsonLine(Event("user", StrContent(<<LetterA>>))),
      JsonLine(Event("assistant", ListContent(<<TextBlock(<<LetterB>>)>>))),
      JsonLine(NonDict),
      BadLine, BlankLine, BytesLine }

InitReader ==
    /\ NoServer
    /\ arg \in {NoFile} \cup {FileOf(ls) : ls \in SeqsUpTo(ReaderLines, MaxLines)}
    /\ ret = [ok |-> FALSE, messages |-> <<>>]
    /\ pc = "call"

ReaderLoad ==
    /\ pc = "call"
    /\ ret' = LoadFile(arg)
    /\ pc' = "done"
    /\ UNCHANGED <<arg, mainvars>>

SpecReader == InitReader /\ [][ReaderLoad]_vars

(* ---- the conversation extractor ---- *)

InitExtract ==
    /\ NoServer
    /\ arg \in SeqsUpTo(SampleEvents, MaxEvents)
    /\ ret = <<>>
    /\ pc = "call"

ExtractConversation ==
    /\ pc = "call"
    /\ ret' = _extract_conversation(arg)
    /\ pc' = "done"
    /\ UNCHANGED <<arg, mainvars>>

SpecExtract == InitExtract /\ [][ExtractConversation]_vars

(* ---- the prompt ---- *)

\* a conversation of n letters, the alphabet rotated by off
LetterText(n, off) == [i \in 1..n |-> LetterA + ((i + off) % 26)]

PromptLengths ==
    (0..MaxExtra) \cup ((max_conv_length - MaxExtra)..(max_conv_length + MaxExtra))

PromptTypes == {"conciso", "detalhado", "bullet_points", "outro"}

InitPrompt ==
    /\ NoServer
    /\ arg \in {[text |-> LetterText(n, off), type |-> t] :
                   n \in PromptLengths, off \in 0..MaxOffset, t \in PromptTypes}
    /\ ret = <<>>
    /\ pc = "call"

CreatePrompt ==
    /\ pc = "call"
    /\ ret' = _create_summary_prompt(arg.text, arg.type)
    /\ pc' = "done"
    /\ UNCHANGED <<arg, mainvars>>

SpecPrompt == InitPrompt /\ [][CreatePrompt]_vars

-----------------------------------------------------------------------------
(* Claims about the transcript reader. *)

\* the values of the lines that parse as JSON, in their order in the file
RECURSIVE ValidValues(_)
ValidValues(ls) ==
    IF ls = <<>> THEN <<>>
    ELSE (IF Head(ls).kind = "json" THEN <<Head(ls).value>> ELSE <<>>) \o ValidValues(Tail(ls))

\* C4: for a session file of K lines that parse as JSON and M malformed lines
\* at any positions, _load_session_file returns exactly the K parsed events in
\* their original order; no malformed line aborts the load.
C4_ReaderKeepsValidLines ==
    (pc = "done" /\ arg.exists) =>
        (ret.ok /\ ret.messages = ValidValues(arg.lines))

-----------------------------------------------------------------------------
(* Claims about the prompt. *)

\* the characters of the prompt after the head of its type, without the
\* newline that ends the prompt
PromptConversation(prompt, summary_type) ==
    SubSeq(prompt, Len(PromptHead(summary_type)) + 1, Len(prompt) - 1)

\* C5 as stated: for a conversation longer than max_conv_length, the prompt is
\* exactly max_conv_length characters plus the truncation marker long, and
\* holds the last max_conv_length characters of the conversation.
C5_PromptIsWindowPlusMarker ==
    (pc = "done" /\ Len(arg.text) > max_conv_length) =>
        /\ Len(ret) = max_conv_length + Len(TruncationMarker)
        /\ \A i \in 1..max_conv_length :
              ret[Len(ret) - 1 - max_conv_length + i] = arg.text[Len(arg.text) - max_conv_length + i]

\* C5 as amended: for a conversation longer than max_conv_length, the prompt is
\* the instruction head of the type, then the truncation marker, then exactly
\* the last max_conv_length characters of the conversation, then a newline; the
\* conversation part of the prompt is max_conv_length plus the marker long.
C5_PromptCarriesTrailingWindow ==
    (pc = "done" /\ Len(arg.text) > max_conv_length) =>
        LET conv == PromptConversation(ret, arg.type)
            m    == Len(TruncationMarker)
        IN  /\ SubSeq(ret, 1, Len(PromptHead(arg.type))) = PromptHead(arg.type)
            /\ ret[Len(ret)] = NL
            /\ Len(conv) = max_conv_length + m
            /\ SubSeq(conv, 1, m) = TruncationMarker
            /\ \A i \in 1..max_conv_length :
                  conv[m + i] = arg.text[Len(arg.text) - max_conv_length + i]

\* C5 witness: a prompt was built for a conversation longer than the maximum
C5_Witness ==
    /\ pc = "done"
    /\ Len(arg.text) = max_conv_length + 2
    /\ Len(ret) > max_conv_length

\* C30: for a conversation of at most 8000 characters, 8000 included, the
\* prompt holds the whole conversation unmodified, between the instruction
\* head and the closing newline, and no truncation marker is put into it.
C30_NoTruncationUpToLimit ==
    (pc = "done" /\ Len(arg.text) <= 8000) =>
        /\ ret = PromptHead(arg.type) \o arg.text \o <<NL>>
        /\ PromptConversation(ret, arg.type) = arg.text
        /\ ~Contains(arg.text, TruncationMarker) => ~Contains(ret, TruncationMarker)

\* a prompt was built for a conversation of exactly 8000 characters
C30_Witness ==
    /\ pc = "done"
    /\ Len(arg.text) = 8000
    /\ Len(ret) = Len(PromptHead(arg.type)) + 8000 + 1

-----------------------------------------------------------------------------
(* Claims about the conversation extractor. *)

\* the text the extractor contract gives an event: a string content verbatim,
\* the texts of the blocks tagged "text" (joined by newlines, as the code
\* joins them) for a sequence of blocks
ContractText(msg) ==
    CASE msg.content.tag = "str" -> msg.content.str
      [] msg.content.tag = "list" -> Join(TextParts(msg.content.blocks), <<NL>>)
      [] OTHER -> <<>>

SpeakerTag(msg) == IF msg.type = "user" THEN UserTag ELSE ClaudeTag

\* the events of a sequence that contribute a turn, tagged with the contract's text
RECURSIVE ContractTurns(_)
ContractTurns(messages) ==
    IF messages = <<>> THEN <<>>
    ELSE (IF EventParts(Head(messages)) # <<>>
          THEN <<SpeakerTag(Head(messages)) \o ContractText(Head(messages))>>
          ELSE <<>>) \o ContractTurns(Tail(messages))

\* C8: for every event that contributes a turn, user or assistant, the
\* contributed text is the content verbatim when it is a string and the text of
\* only its blocks tagged "text" when it is a sequence of blocks.
C8_TurnTextFollowsContract ==
    pc = "done" => ret = Join(ContractTurns(arg), <<NL, NL>>)

\* the speaker marks: U+1F464 opens a user turn, U+1F916 an assistant turn
TurnCount(text) == CountChar(text, UserTag[1]) + CountChar(text, ClaudeTag[1])

\* an event whose extracted text is empty; for an assistant event a text of
\* whitespace only counts as empty, which is how the code tests it
ContractEmpty(msg) ==
    IF msg.type = "assistant" THEN IsBlank(ContractText(msg)) ELSE ContractText(msg) = <<>>

\* C9: the number of tagged turns equals the number of user and assistant events
\* whose extracted text is not empty; an event holding only non-text blocks
\* produces no turn.
C9_TurnsAreNonEmptyEvents ==
    pc = "done" =>
        TurnCount(ret) = Cardinality({i \in 1..Len(arg) :
                                         /\ arg[i].isdict
                                         /\ arg[i].type \in {"user", "assistant"}
                                         /\ arg[i].message # "null"
                                         /\ ~ContractEmpty(arg[i])})

\* the turn an event gives when it is extracted alone, empty if it gives none
TurnAlone(msg) == _extract_conversation(<<msg>>)

\* the turns of the events of a sequence, in the order of the events
TurnsInOrder(messages) ==
    SelectSeq([i \in 1..Len(messages) |-> TurnAlone(messages[i])],
              LAMBDA turn : turn # <<>>)

\* C22: the tagged turns of the conversation text stand in the order of the
\* events that produced them, each once: the text is the turns of the events,
\* in the order of the events, joined by blank lines.
C22_TurnsKeepEventOrder ==
    pc = "done" => ret = Join(TurnsInOrder(arg), <<NL, NL>>)

\* two events that give different turns, and a third that gives none
C22_Witness ==
    /\ pc = "done"
    /\ Len(arg) = 3
    /\ Len(TurnsInOrder(arg)) = 2
    /\ TurnsInOrder(arg)[1] # TurnsInOrder(arg)[2]
    /\ StartsWith(ret, ClaudeTag)

-----------------------------------------------------------------------------
(* The summary store (SummaryStorage).                                      *)
(* A summary file is absent, holds a JSON list of stored summaries, holds   *)
(* text that is no JSON ("corrupt"), or holds bytes that are no text        *)
(* ("undecodable").                                                         *)

\* "_summaries.json"
SummariesSuffix == <<95, 115, 117, 109, 109, 97, 114, 105, 101, 115, 46, 106, 115, 111, 110>>

\* a plausible slip: the directory is left out of the path
SummaryPathBySession(directory, session_id) == session_id \o SummariesSuffix

\* SummaryStorage._get_session_summary_path, below SUMMARIES_PATH
_get_session_summary_path(directory, session_id) ==
    directory \o <<SLASH>> \o session_id \o SummariesSuffix

\* the summary types as Python strings
TypeChars(summary_type) ==
    CASE summary_type = "conciso" -> <<99, 111, 110, 99, 105, 115, 111>>
      [] summary_type = "detalhado" -> <<100, 101, 116, 97, 108, 104, 97, 100, 111>>
      [] summary_type = "bullet_points" ->
            <<98, 117, 108, 108, 101, 116, 95, 112, 111, 105, 110, 116, 115>>
      [] OTHER -> <<>>

DIGIT0 == 48

TwoDigits(n) == <<DIGIT0 + (n \div 10), DIGIT0 + (n % 10)>>

\* datetime.now().isoformat() at tick t: the ticks are the whole seconds of
\* the hour that starts at 2025-01-01T00:00:00
IsoFormat(t) ==
    <<50, 48, 50, 53, 45, 48, 49, 45, 48, 49, 84, 48, 48, 58>>
    \o TwoDigits(t \div 60) \o <<COLON>> \o TwoDigits(t % 60)

\* hashlib.md5(content.encode()).hexdigest(): the digest is represented by the
\* string it digests, that is, md5 is taken to be free of collisions
Md5Hex(content) == content

\* SummaryStorage._generate_summary_id: the first 12 hex digits of the digest
_generate_summary_id(session_id, summary_type, timestamp, custom_prompt) ==
    Md5Hex(session_id \o <<COLON>> \o TypeChars(summary_type) \o <<COLON>> \o timestamp
           \o <<COLON>> \o custom_prompt)

NoSummaryFile == [kind |-> "absent", entries |-> <<>>]
SummaryFileOf(es) == [kind |-> "list", entries |-> es]
CorruptSummaryFile == [kind |-> "corrupt", entries |-> <<>>]
\* a file whose bytes are no UTF-8 text, as one cut inside a character: reading
\* it raises UnicodeDecodeError, which is no JSONDecodeError
UndecodableSummaryFile == [kind |-> "undecodable", entries |-> <<>>]

\* a plausible slip: the slice keeps one entry too many
KeepLastOneMore(summaries, n) ==
    IF Len(summaries) > n + 1
    THEN SubSeq(summaries, Len(summaries) - n, Len(summaries))
    ELSE summaries

\* summaries[-n:]
KeepLast(summaries, n) ==
    IF Len(summaries) > n
    THEN SubSeq(summaries, Len(summaries) - n + 1, Len(summaries))
    ELSE summaries

\* "Manter apenas os ultimos 20 resumos por sessao"
max_summaries == 20

\* the record save_summary builds; a summary_data without 'type' is "conciso",
\* no summary_data carries 'custom_prompt'
NewSummary(directory, session_id, summary_data, timestamp) ==
    LET summary_type == IF summary_data.type = "" THEN "conciso" ELSE summary_data.type
    IN  [ id |-> _generate_summary_id(session_id, summary_type, timestamp, <<>>),
          session_id |-> session_id,
          directory |-> directory,
          timestamp |-> timestamp,
          summary_type |-> summary_type,
          summary_content |-> summary_data.summary,
          custom_prompt |-> <<>>,
          metrics |-> summary_data.metrics,
          session_metadata |-> summary_data.session_metadata,
          conversation_length |-> summary_data.conversation_length,
          generated_at |-> IF summary_data.generated_at = <<>> THEN timestamp
                           ELSE summary_data.generated_at ]

\* SummaryStorage.save_summary with datetime.now().isoformat() = timestamp:
\* the store after it and the id it returns.  The inner handler (line 53)
\* takes JSONDecodeError and FileNotFoundError for an empty list; any other
\* exception of the load reaches the outer handler, which raises it again
\* (lines 91-93)
save_summary(st, directory, session_id, summary_data, timestamp) ==
    LET path == _get_session_summary_path(directory, session_id)
        existing_summaries == IF st[path].kind = "list" THEN st[path].entries ELSE <<>>
        new_summary == NewSummary(directory, session_id, summary_data, timestamp)
        kept == KeepLast(Append(existing_summaries, new_summary), max_summaries)
    IN  IF st[path].kind = "undecodable"
        THEN [ store |-> st, id |-> <<>>, raised |-> TRUE ]
        ELSE [ store |-> [st EXCEPT ![path] = SummaryFileOf(kept)],
               id |-> new_summary.id, raised |-> FALSE ]

\* a < b or a = b for Python strings
StrLeq(a, b) ==
    LET n    == IF Len(a) < Len(b) THEN Len(a) ELSE Len(b)
        diff == {i \in 1..n : a[i] # b[i]}
    IN  IF diff = {} THEN Len(a) <= Len(b) ELSE a[SetMin(diff)] < b[SetMin(diff)]

\* x put into a list sorted newest first, behind the entries that are not older
InsertNewestFirst(x, sorted) ==
    LET k == Cardinality({i \in 1..Len(sorted) : StrLeq(x.timestamp, sorted[i].timestamp)})
    IN  SubSeq(sorted, 1, k) \o <<x>> \o SubSeq(sorted, k + 1, Len(sorted))

\* a plausible slip: the list is returned in the order of the file
AsStored(summaries) == summaries

\* summaries.sort(key=timestamp, reverse=True): stable, newest first
RECURSIVE SortNewestFirst(_)
SortNewestFirst(summaries) ==
    IF summaries = <<>> THEN <<>>
    ELSE InsertNewestFirst(summaries[Len(summaries)],
                           SortNewestFirst(SubSeq(summaries, 1, Len(summaries) - 1)))

\* SummaryStorage.get_summaries_for_session: a file that is no JSON makes
\* json.load raise, and the handler of the exception returns []
get_summaries_for_session(st, directory, session_id) ==
    LET f == st[_get_session_summary_path(directory, session_id)]
    IN  IF f.kind = "list" THEN SortNewestFirst(f.entries) ELSE <<>>

\* what get_summary_by_id returns: a stored summary, or None
NotFound == [found |-> FALSE, summary |-> <<>>]
Found(summary) == [found |-> TRUE, summary |-> summary]

\* a plausible slip: the id of the entry is not compared
FirstOfFile(f, summary_id) ==
    IF f.kind # "list" \/ f.entries = <<>> THEN NotFound ELSE Found(f.entries[1])

\* the body of the loop of get_summary_by_id over the files: the first entry
\* of the file with the id; a file that is no JSON raises JSONDecodeError and
\* is passed over, an absent file is not among those rglob yields
ScanFile(f, summary_id) ==
    LET hits == {i \in 1..Len(f.entries) : f.entries[i].id = summary_id}
    IN  IF f.kind # "list" \/ hits = {} THEN NotFound ELSE Found(f.entries[SetMin(hits)])

\* SummaryStorage.get_summary_by_id; order is the order in which
\* SUMMARIES_PATH.rglob yields the summary files.  A file that is no UTF-8
\* text raises in the loop an exception the inner handler (line 129) does not
\* take: the outer handler (134-136) ends the scan with None
RECURSIVE get_summary_by_id(_, _, _)
get_summary_by_id(st, order, summary_id) ==
    IF order = <<>> THEN NotFound
    ELSE IF st[Head(order)].kind = "undecodable" THEN NotFound
    ELSE IF ScanFile(st[Head(order)], summary_id).found
         THEN ScanFile(st[Head(order)], summary_id)
         ELSE get_summary_by_id(st, Tail(order), summary_id)

\* a plausible slip: == for != in the filter
OnlyId(summaries, summary_id) ==
    SelectSeq(summaries, LAMBDA s : s.id = summary_id)

\* [s for s in summaries if s.get('id') != summary_id]
WithoutId(summaries, summary_id) ==
    SelectSeq(summaries, LAMBDA s : s.id # summary_id)

\* a plausible slip: the filtered list is written back whatever was found,
\* over a file that is absent or no JSON too
DeleteAlwaysWrites(st, directory, session_id, summary_id) ==
    LET path == _get_session_summary_path(directory, session_id)
        updated_summaries == WithoutId(st[path].entries, summary_id)
    IN  [ store |-> [st EXCEPT ![path] = SummaryFileOf(updated_summaries)],
          ok |-> Len(updated_summaries) # Len(st[path].entries) ]

\* SummaryStorage.delete_summary: the store after it and the boolean it returns
delete_summary(st, directory, session_id, summary_id) ==
    LET path == _get_session_summary_path(directory, session_id)
        f == st[path]
        updated_summaries == WithoutId(f.entries, summary_id)
    IN  IF f.kind # "list" THEN [store |-> st, ok |-> FALSE]
        ELSE IF Len(updated_summaries) = Len(f.entries) THEN [store |-> st, ok |-> FALSE]
        ELSE [store |-> [st EXCEPT ![path] = SummaryFileOf(updated_summaries)], ok |-> TRUE]

-----------------------------------------------------------------------------
(* Results of the summarizer: the dict generate_summary returns. *)

NoMetrics == [input_tokens |-> 0, output_tokens |-> 0, cost |-> 0, summary_length |-> 0]
NoMetadata ==
    [ total_messages |-> 0, user_messages |-> 0, assistant_messages |-> 0,
      custom_edit |-> FALSE, estimated_messages |-> 0 ]

\* {"success": False, "error": msg, "summary": ""}
Failure(msg) ==
    [ success |-> FALSE, error |-> msg, summary |-> <<>>, type |-> "",
      metrics |-> NoMetrics, session_metadata |-> NoMetadata,
      generated_at |-> <<>>, conversation_length |-> 0, summary_id |-> <<>> ]

\* datetime.now(): the clock may give the value it gave last (two reads within
\* its resolution) or a later one
ClockReads(t) == {t, t + 1}

-----------------------------------------------------------------------------
(* Specification of the store: one session, whose summary file starts      *)
(* absent or as a run of earlier saves left it, and a bounded number of    *)
(* save, delete and list operations on it.                                 *)

\* how many operations a run of the store specification performs
MaxStoreOps == 4
\* the store starts empty or with max_summaries - k entries, k in 0..MaxPreloadGap
MaxPreloadGap == 1

StoreDirectory == <<112>>
StoreSession == <<115>>
StorePath == _get_session_summary_path(StoreDirectory, StoreSession)

StoreData(summary_type) ==
    [ success |-> TRUE, error |-> "", summary |-> <<LetterA>>, type |-> summary_type,
      metrics |-> NoMetrics, session_metadata |-> NoMetadata,
      generated_at |-> <<>>, conversation_length |-> 1, summary_id |-> <<>> ]

StoreTypes == {"conciso", "detalhado"}

\* the store after n saves of a "conciso" summary at the ticks 1..n
RECURSIVE Preloaded(_)
Preloaded(n) ==
    IF n = 0 THEN [p \in {StorePath} |-> NoSummaryFile]
    ELSE save_summary(Preloaded(n - 1), StoreDirectory, StoreSession,
                      StoreData("conciso"), IsoFormat(n)).store

PreloadSizes == {0} \cup ((max_summaries - MaxPreloadGap)..max_summaries)

StoredIds(st, path) == {st[path].entries[i].id : i \in 1..Len(st[path].entries)}

\* the ids a delete request of the store specification may name: those of the
\* oldest, the second oldest and the newest stored summary
DeleteCandidates(st, path) ==
    LET n == Len(st[path].entries)
    IN  {st[path].entries[i].id : i \in {1, 2, n} \cap (1..n)}

\* an id no save of the model produces
AbsentId == <<LetterA>>

StoreOp(op, id, ok, list, before) ==
    [ op |-> op, id |-> id, ok |-> ok, list |-> list, before |-> before,
      prev_op |-> last.op, prev_id |-> last.id, prev_ok |-> last.ok ]

InitStore ==
    /\ files = <<>>
    /\ cache = <<>>
    /\ initialized = FALSE
    /\ extCalls = 0
    /\ prev = <<>>
    /\ arg = <<>>
    /\ ret = <<>>
    /\ pc = "store"
    /\ nops = 0
    /\ \E n \in PreloadSizes :
          /\ store = Preloaded(n)
          /\ now = n
    /\ last = [ op |-> "none", id |-> <<>>, ok |-> FALSE, list |-> <<>>, before |-> 0,
                prev_op |-> "none", prev_id |-> <<>>, prev_ok |-> FALSE ]

StoreSave ==
    /\ nops < MaxStoreOps
    /\ \E summary_type \in StoreTypes, t \in ClockReads(now) :
          LET r == save_summary(store, StoreDirectory, StoreSession,
                                StoreData(summary_type), IsoFormat(t))
          IN  /\ store' = r.store
              /\ now' = t
              /\ last' = StoreOp("save", r.id, TRUE, <<>>, Len(store[StorePath].entries))
    /\ nops' = nops + 1
    /\ UNCHANGED <<files, cache, initialized, extCalls, prev, arg, ret, pc>>

StoreDelete ==
    /\ nops < MaxStoreOps
    /\ \E summary_id \in DeleteCandidates(store, StorePath) \cup {AbsentId, last.id} :
          LET r == delete_summary(store, StoreDirectory, StoreSession, summary_id)
          IN  /\ store' = r.store
              /\ last' = StoreOp("delete", summary_id, r.ok, <<>>, Len(store[StorePath].entries))
    /\ nops' = nops + 1
    /\ UNCHANGED <<files, cache, initialized, now, extCalls, prev, arg, ret, pc>>

StoreList ==
    /\ nops < MaxStoreOps
    /\ last' = StoreOp("list", <<>>, TRUE,
                       get_summaries_for_session(store, StoreDirectory, StoreSession),
                       Len(store[StorePath].entries))
    /\ nops' = nops + 1
    /\ UNCHANGED <<files, store, cache, initialized, now, extCalls, prev, arg, ret, pc>>

NextStore == StoreSave \/ StoreDelete \/ StoreList

SpecStore == InitStore /\ [][NextStore]_vars

-----------------------------------------------------------------------------
(* Claims about the store. *)

StoredEntries(st) == st[StorePath].entries

DistinctIds(summaries) ==
    \A i, j \in 1..Len(summaries) : summaries[i].id = summaries[j].id => i = j

\* C2: after any sequence of saves and deletes, get_summaries_for_session
\* returns at most 20 entries; a save made when the session holds 20 entries
\* evicts exactly the earliest-saved one and keeps the other 19 and the new one.
C2_StoreRetention ==
    /\ [](last.op = "list" => (Len(last.list) <= max_summaries
                                /\ Len(last.list) = Len(StoredEntries(store))))
    /\ [][ (nops' = nops + 1 /\ last'.op = "save" /\ Len(StoredEntries(store)) = max_summaries)
           => LET old == StoredEntries(store)
                  new == StoredEntries(store')
              IN  /\ Len(new) = max_summaries
                  /\ SubSeq(new, 1, max_summaries - 1) = SubSeq(old, 2, max_summaries)
                  /\ new[max_summaries].id = last'.id ]_vars

\* C2 witness: a save was made on a session that held 20 summaries
C2_Witness ==
    /\ last.op = "save"
    /\ last.before = max_summaries
    /\ Len(StoredEntries(store)) = max_summaries

\* C3: on a session whose stored ids are pairwise distinct, deleting a present
\* id returns true and leaves exactly the other summaries; deleting the same id
\* again returns false.
C3_DeleteById ==
    [][ (nops' = nops + 1 /\ last'.op = "delete")
        => LET old == StoredEntries(store)
               new == StoredEntries(store')
               id  == last'.id
           IN  /\ (DistinctIds(old) /\ id \in StoredIds(store, StorePath))
                  => /\ last'.ok
                     /\ \E k \in 1..Len(old) :
                           /\ old[k].id = id
                           /\ new = SubSeq(old, 1, k - 1) \o SubSeq(old, k + 1, Len(old))
               /\ (last.op = "delete" /\ last.ok /\ last.id = id)
                  => (~last'.ok /\ store' = store) ]_vars

\* C3 witness: an id was deleted from a list of three or more, and the second
\* delete of that id returned false
C3_Witness ==
    /\ last.op = "delete" /\ ~last.ok
    /\ last.prev_op = "delete" /\ last.prev_ok /\ last.prev_id = last.id
    /\ Len(StoredEntries(store)) >= 2
    /\ DistinctIds(StoredEntries(store))

\* how many times x occurs in the sequence s
Occurrences(s, x) == Cardinality({i \in 1..Len(s) : s[i] = x})

\* C11: get_summaries_for_session returns the stored summaries of the session,
\* each as often as it is stored, and for every adjacent pair of the returned
\* list the timestamp of the earlier element is greater than or equal to the
\* timestamp of the later one.
C11_ListNewestFirst ==
    (last.op = "list")
        => /\ Len(last.list) = Len(StoredEntries(store))
           /\ \A i \in 1..Len(last.list) :
                  Occurrences(last.list, last.list[i])
                      = Occurrences(StoredEntries(store), last.list[i])
           /\ \A i \in 1..(Len(last.list) - 1) :
                  StrLeq(last.list[i + 1].timestamp, last.list[i].timestamp)

\* C11 witness: a list of summaries saved at different times, two of them at
\* the same time, was returned
C11_Witness ==
    /\ last.op = "list"
    /\ Len(last.list) >= 3
    /\ last.list[1].timestamp = last.list[2].timestamp
    /\ last.list[1].timestamp # last.list[Len(last.list)].timestamp

-----------------------------------------------------------------------------
(* Specification of the lookup by id: the summary files of three sessions, *)
(* two of them with the same session id in different directories, each     *)
(* absent, no JSON, no UTF-8 text, or as a run of saves left it; one step  *)
(* looks an id up, or deletes it from one of the sessions, or saves a      *)
(* summary for one of them, or lists one of them.                          *)

\* how many summaries a file of the lookup specification holds at most
MaxStored == 2

OtherDirectory == <<113>>
OtherSession == <<116>>
LookupSessions ==
    {<<StoreDirectory, StoreSession>>, <<StoreDirectory, OtherSession>>,
     <<OtherDirectory, StoreSession>>}
LookupPaths == {_get_session_summary_path(x[1], x[2]) : x \in LookupSessions}

\* the summary file of a session after n saves, at the ticks 1..n
RECURSIVE SavedFile(_, _, _)
SavedFile(directory, session_id, n) ==
    LET path == _get_session_summary_path(directory, session_id)
    IN  IF n = 0 THEN SummaryFileOf(<<>>)
        ELSE save_summary([p \in {path} |-> SavedFile(directory, session_id, n - 1)],
                          directory, session_id,
                          StoreData(IF n % 2 = 1 THEN "conciso" ELSE "detalhado"),
                          IsoFormat(n)).store[path]

\* the states the summary file of a session may be in
LookupFiles(directory, session_id) ==
    {NoSummaryFile, CorruptSummaryFile, UndecodableSummaryFile}
    \cup {SavedFile(directory, session_id, n) : n \in 0..MaxStored}

LookupStores ==
    {st \in [LookupPaths -> UNION {LookupFiles(x[1], x[2]) : x \in LookupSessions}] :
        \A x \in LookupSessions :
            st[_get_session_summary_path(x[1], x[2])] \in LookupFiles(x[1], x[2])}

\* the ids stored in any file
AllStoredIds(st) == UNION {StoredIds(st, p) : p \in DOMAIN st}

\* the orders in which the files may be scanned
ScanOrders(paths) ==
    {o \in [1..Cardinality(paths) -> paths] : \A p \in paths : \E i \in DOMAIN o : o[i] = p}

InitLookup ==
    /\ files = <<>>
    /\ cache = <<>>
    /\ initialized = FALSE
    /\ now = 0
    /\ extCalls = 0
    /\ prev = <<>>
    /\ nops = 0
    /\ store \in LookupStores
    /\ \E id \in AllStoredIds(store) \cup {AbsentId}, order \in ScanOrders(LookupPaths) :
          arg = [id |-> id, order |-> order]
    /\ last = <<>>
    /\ ret = NotFound
    /\ pc = "call"

LookupById ==
    /\ pc = "call"
    /\ ret' = get_summary_by_id(store, arg.order, arg.id)
    /\ pc' = "done"
    /\ UNCHANGED <<arg, mainvars>>

\* delete_summary of the id for one of the sessions
LookupDelete ==
    /\ pc = "call"
    /\ \E x \in LookupSessions :
          LET r == delete_summary(store, x[1], x[2], arg.id)
          IN  /\ store' = r.store
              /\ ret' = [ok |-> r.ok, path |-> _get_session_summary_path(x[1], x[2]),
                          session |-> x]
    /\ pc' = "deleted"
    /\ UNCHANGED <<arg, files, cache, initialized, now, extCalls, last, prev, nops>>

\* save_summary for one of the sessions, at the tick of the last of the saves
\* that made the files or at a later one
LookupSave ==
    /\ pc = "call"
    /\ \E x \in LookupSessions, summary_type \in StoreTypes, t \in {MaxStored, MaxStored + 1} :
          LET r == save_summary(store, x[1], x[2], StoreData(summary_type), IsoFormat(t))
          IN  /\ store' = r.store
              /\ now' = t
              /\ ret' = [raised |-> r.raised, id |-> r.id, type |-> summary_type,
                          path |-> _get_session_summary_path(x[1], x[2]), session |-> x]
    /\ pc' = "saved"
    /\ UNCHANGED <<arg, files, cache, initialized, extCalls, last, prev, nops>>

\* get_summaries_for_session for one of the sessions
LookupList ==
    /\ pc = "call"
    /\ \E x \in LookupSessions :
          ret' = [list |-> get_summaries_for_session(store, x[1], x[2]),
                  path |-> _get_session_summary_path(x[1], x[2]), session |-> x]
    /\ pc' = "listed"
    /\ UNCHANGED <<arg, mainvars>>

NextLookup == LookupById \/ LookupDelete \/ LookupSave \/ LookupList

SpecLookup == InitLookup /\ [][NextLookup]_vars

\* C12: get_summary_by_id returns a stored summary with the requested id
\* whenever the list of some session holds one, returns None exactly when no
\* list holds one, and never returns a summary with another id.
C12_GetById ==
    (pc = "done")
        => /\ ret.found <=> (arg.id \in AllStoredIds(store))
           /\ ret.found
                  => /\ ret.summary.id = arg.id
                     /\ \E p \in DOMAIN store : \E i \in 1..Len(store[p].entries) :
                            store[p].entries[i] = ret.summary

\* C12 witness: the id is stored in two files, behind another summary in the
\* file scanned first, and the summary of that file was returned
C12_Witness ==
    /\ pc = "done" /\ ret.found
    /\ Cardinality({p \in DOMAIN store : arg.id \in StoredIds(store, p)}) = 2
    /\ \E k \in 1..3 :
          /\ arg.id \in StoredIds(store, arg.order[k])
          /\ \A j \in 1..(k - 1) : arg.id \notin StoredIds(store, arg.order[j])
          /\ store[arg.order[k]].entries[1].id # arg.id
          /\ ret.summary.directory \o <<SLASH>> \o ret.summary.session_id \o SummariesSuffix
                = arg.order[k]

\* C13: delete_summary for an id that the list of the session does not hold,
\* or for a session without summary file, returns false and leaves the
\* summary file of every session as it was.
C13_DeleteAbsent ==
    [][ (pc' = "deleted" /\ arg.id \notin StoredIds(store, ret'.path))
            => (~ret'.ok /\ store' = store) ]_vars

\* C13 witness: the id is stored for another session, the session named holds
\* other summaries, and the delete returned false
C13_Witness ==
    /\ pc = "deleted" /\ ~ret.ok
    /\ arg.id \in AllStoredIds(store)
    /\ arg.id \notin StoredIds(store, ret.path)
    /\ Len(store[ret.path].entries) = MaxStored


\* a summary file that is no JSON list: text that is no JSON, or no text
Malformed(f) == f.kind \in {"corrupt", "undecodable"}

\* C23: when the summary file of a session does not parse as JSON,
\* save_summary still succeeds and starts from the empty list,
\* get_summaries_for_session returns the empty list, get_summary_by_id passes
\* the file over and scans the others, and delete_summary returns false; none
\* of them raises.
C23_MalformedFileNeverFatal ==
    [][ /\ (pc' = "saved" /\ Malformed(store[ret'.path]))
            => /\ ~ret'.raised
               /\ store'[ret'.path].kind = "list"
               /\ Len(store'[ret'.path].entries) = 1
               /\ store'[ret'.path].entries[1].id = ret'.id
        /\ (pc' = "listed" /\ Malformed(store[ret'.path]))
            => ret'.list = <<>>
        /\ (pc' = "done" /\ \E p \in DOMAIN store : Malformed(store[p]))
            => (ret'.found <=> (arg.id \in AllStoredIds(store)))
        /\ (pc' = "deleted" /\ Malformed(store[ret'.path]))
            => (~ret'.ok /\ store' = store)
      ]_vars

\* the stored list of a session
StoredList(st, x) == st[_get_session_summary_path(x[1], x[2])]

\* C28: save_summary and delete_summary for a session leave the stored list
\* of every other (directory, session_id) pair as it was.
C28_OtherSessionsUnchanged ==
    [][ (pc' \in {"saved", "deleted"})
            => \A x \in LookupSessions :
                  (x # ret'.session) => (StoredList(store', x) = StoredList(store, x))
      ]_vars

\* a summary was saved for a session while the session with the same id in
\* the other directory and the other session of the same directory hold lists
C28_Witness ==
    /\ pc = "saved" /\ ~ret.raised
    /\ ret.session = <<StoreDirectory, StoreSession>>
    /\ Len(StoredList(store, ret.session).entries) >= 2
    /\ Len(StoredList(store, <<OtherDirectory, StoreSession>>).entries) >= 1
    /\ Len(StoredList(store, <<StoreDirectory, OtherSession>>).entries) >= 1

\* C29: right after save_summary returned an id, get_summaries_for_session
\* of the session holds an entry with that id, with the summary and the type
\* saved, and get_summary_by_id of the id returns an entry with that id.
C29_SaveRoundTrip ==
    (pc = "saved" /\ ~ret.raised)
        => /\ \E e \in {get_summaries_for_session(store, ret.session[1], ret.session[2])} :
                 \E i \in 1..Len(e) :
                    /\ e[i].id = ret.id
                    /\ e[i].summary_content = StoreData(ret.type).summary
                    /\ e[i].summary_type = ret.type
           /\ \A order \in ScanOrders(LookupPaths) :
                 /\ get_summary_by_id(store, order, ret.id).found
                 /\ get_summary_by_id(store, order, ret.id).summary.id = ret.id

-----------------------------------------------------------------------------
(* Specification of two store operations on one session that run at the    *)
(* same time (two processes that share SUMMARIES_PATH).  An operation      *)
(* loads the file, and a save or a delete then opens it for writing, which *)
(* empties it, and writes its list from the start of the file when it      *)
(* closes it.  Nothing orders the steps of the two operations.             *)

\* the length of hexdigest()[:12]
id_chars == 12
\* what json.dump(indent=2) writes for a list besides its entries ("[]")
json_list_chars == 2
\* what it writes for an entry besides the characters of its strings
json_entry_chars == 509

\* the characters json.dump writes for a stored summary and for a list
EntryChars(e) ==
    json_entry_chars + id_chars + Len(e.session_id) + Len(e.directory) + Len(e.timestamp)
    + Len(TypeChars(e.summary_type)) + Len(e.summary_content) + Len(e.custom_prompt)
    + Len(e.generated_at)
RECURSIVE JsonChars(_)
JsonChars(entries) ==
    IF entries = <<>> THEN json_list_chars
    ELSE EntryChars(Head(entries)) + JsonChars(Tail(entries))

\* the length of a summary file
FileChars(f) == IF f.kind = "list" THEN JsonChars(f.entries) ELSE 0

Procs == {1, 2}

\* the operations a process may perform
RaceOps(st) ==
    {[op |-> "save", type |-> t, id |-> <<>>] : t \in StoreTypes}
    \cup {[op |-> o, type |-> "", id |-> i] :
             o \in {"delete", "get"}, i \in StoredIds(st, StorePath) \cup {AbsentId}}
    \cup {[op |-> "list", type |-> "", id |-> <<>>]}

\* the local state of an operation that has not loaded the file
Idle ==
    [ read |-> FALSE, saw |-> NoSummaryFile, computed |-> <<>>, id |-> <<>>,
      ok |-> FALSE, list |-> <<>>, got |-> NotFound ]

InitRace ==
    /\ files = <<>>
    /\ cache = <<>>
    /\ initialized = FALSE
    /\ extCalls = 0
    /\ prev = <<>>
    /\ nops = 0
    /\ \E n \in 0..MaxStored :
          /\ store = Preloaded(n)
          /\ now = n
    /\ arg \in [Procs -> RaceOps(store)]
    /\ ret = [p \in Procs |-> Idle]
    /\ pc = [p \in Procs |-> "start"]
    /\ last = [bytes |-> FileChars(store[StorePath]), writer |-> 0, opened |-> FALSE,
                early |-> TRUE]

\* the operation of p loads the file and computes what it returns or writes
\* (save_summary lines 47-83, delete_summary 143-153, get_summaries_for_session
\* 101-110, get_summary_by_id 120-132)
RaceLoad(p) ==
    /\ pc[p] = "start"
    /\ \E t \in (IF arg[p].op = "save" THEN ClockReads(now) ELSE {now}) :
       \E saved \in {save_summary(store, StoreDirectory, StoreSession,
                                   StoreData(arg[p].type), IsoFormat(t))} :
       \E deleted \in {delete_summary(store, StoreDirectory, StoreSession, arg[p].id)} :
          /\ now' = t
          /\ ret' = [ret EXCEPT ![p] =
                CASE arg[p].op = "save" ->
                        [Idle EXCEPT !.read = TRUE, !.saw = store[StorePath],
                                     !.computed = saved.store[StorePath].entries,
                                     !.id = saved.id]
                  [] arg[p].op = "delete" ->
                        [Idle EXCEPT !.read = TRUE, !.saw = store[StorePath],
                                     !.computed = deleted.store[StorePath].entries,
                                     !.id = arg[p].id]
                  [] arg[p].op = "list" ->
                        [Idle EXCEPT !.read = TRUE, !.saw = store[StorePath],
                                     !.list = get_summaries_for_session(
                                                  store, StoreDirectory, StoreSession)]
                  [] OTHER ->
                        [Idle EXCEPT !.read = TRUE, !.saw = store[StorePath],
                                     !.id = arg[p].id,
                                     !.got = get_summary_by_id(store, <<StorePath>>,
                                                               arg[p].id)]]
          /\ pc' = [pc EXCEPT ![p] =
                IF arg[p].op = "save" \/ (arg[p].op = "delete" /\ deleted.ok)
                THEN "loaded" ELSE "done"]
    /\ last' = [last EXCEPT !.early = last.early /\ ~last.opened]
    /\ UNCHANGED <<store, arg, files, cache, initialized, extCalls, prev, nops>>

\* open(summary_file, 'w'): the file is emptied
RaceOpen(p) ==
    /\ pc[p] = "loaded"
    /\ store' = [store EXCEPT ![StorePath] = CorruptSummaryFile]
    /\ last' = [last EXCEPT !.bytes = 0, !.opened = TRUE]
    /\ pc' = [pc EXCEPT ![p] = "opened"]
    /\ UNCHANGED <<arg, ret, now, files, cache, initialized, extCalls, prev, nops>>

\* json.dump and the end of the with block: the list is written from the
\* start of the file, over what another operation wrote meanwhile; what that
\* one wrote beyond the end of the list stays, and the file is no JSON
RaceClose(p) ==
    /\ pc[p] = "opened"
    /\ store' = [store EXCEPT ![StorePath] =
                    IF JsonChars(ret[p].computed) >= last.bytes
                    THEN SummaryFileOf(ret[p].computed)
                    ELSE CorruptSummaryFile]
    /\ last' = [last EXCEPT !.bytes = IF JsonChars(ret[p].computed) >= last.bytes
                                      THEN JsonChars(ret[p].computed) ELSE last.bytes,
                            !.writer = p]
    /\ ret' = [ret EXCEPT ![p].ok = TRUE]
    /\ pc' = [pc EXCEPT ![p] = "done"]
    /\ UNCHANGED <<arg, now, files, cache, initialized, extCalls, prev, nops>>

NextRace == \E p \in Procs : RaceLoad(p) \/ RaceOpen(p) \/ RaceClose(p)

SpecRace == InitRace /\ [][NextRace]_vars

\* C14: while a save or a delete rewrites the summary file of a session, no
\* other operation on the session finds the file empty or partly written:
\* whatever an operation loads is a complete list (or no file).
C14_ReadsSeeCompleteLists ==
    \A p \in Procs : ret[p].read => ret[p].saw.kind # "corrupt"

\* C15: when two saves on a session both load the file before either writes
\* it, then after both the file holds exactly the list of the save that wrote
\* last, and the summary of the other save, whose id was returned, is not in it.
C15_LastWriteWins ==
    ( /\ \A p \in Procs : arg[p].op = "save" /\ pc[p] = "done"
      /\ last.early )
        => /\ store[StorePath] = SummaryFileOf(ret[last.writer].computed)
           /\ \A q \in Procs :
                  ret[q].id # ret[last.writer].id
                      => ret[q].id \notin StoredIds(store, StorePath)

-----------------------------------------------------------------------------
(* The summary requester (ClaudeViewer). *)

\* 'U+1F4DD Claude:'
Anchor ==
    <<128221, 32, 67, 108, 97, 117, 100, 101, 58>>

\* 'U+1F4CA Tokens:'
TokensPrefix ==
    <<128202, 32, 84, 111, 107, 101, 110, 115, 58>>

\* 'U+1F4B0 Custo:'
CustoPrefix ==
    <<128176, 32, 67, 117, 115, 116, 111, 58>>

\* '**Contexto**:'
ContextoMark ==
    <<42, 42, 67, 111, 110, 116, 101, 120, 116, 111, 42, 42, 58>>

\* the index of the first line after the first that holds the anchor, 0 if none
\* ("if ... in line and i > 0", i counted from 0)
AnchorLine(lines) ==
    LET hits == {k \in 2..Len(lines) : Contains(lines[k], Anchor)}
    IN  IF hits = {} THEN 0 ELSE SetMin(hits)

IsMetricsLine(line) == StartsWith(line, TokensPrefix) \/ StartsWith(line, CustoPrefix)

\* the lines from index from on, up to the first metrics line
UntilMetrics(lines, from) ==
    LET stops == {k \in from..Len(lines) : IsMetricsLine(lines[k])}
        end   == IF stops = {} THEN Len(lines) ELSE SetMin(stops) - 1
    IN  SubSeq(lines, from, end)

\* the shortest response taken as extracted cleanly
min_clean_length == 50

\* the fallback on a short response: from the first line holding "**Contexto**:"
ContextoFallback(lines, summary_content) ==
    LET hits == {k \in 1..Len(lines) : Contains(lines[k], ContextoMark)}
    IN  IF hits = {} THEN summary_content
        ELSE Strip(Join(UntilMetrics(lines, SetMin(hits)), <<NL>>))

\* a plausible slip: the stdout is taken as it came, neither stripped nor cut
RawSummary(stdout) == stdout

\* lines 124-166: the summary found in the stdout of the external summarizer
ExtractSummary(stdout) ==
    LET raw_output == Strip(stdout)
        lines == SplitLines(raw_output)
        start == AnchorLine(lines)
    IN  IF start > 0
        THEN LET summary_content == Strip(Join(UntilMetrics(lines, start + 1), <<NL>>))
             IN  IF Len(summary_content) < min_clean_length
                 THEN ContextoFallback(lines, summary_content)
                 ELSE summary_content
        ELSE raw_output

\* the estimate of the cost, in millionths of a dollar:
\* input_tokens * 0.000003 + output_tokens * 0.000015
CostMicro(input_tokens, output_tokens) == input_tokens * 3 + output_tokens * 15

chars_per_token == 4

\* ClaudeViewer._initialize_sdk: probe is how the run of "claude --help" ends
\* ("ok": exit code 0; anything else raises and is caught)
_initialize_sdk(was_initialized, probe) == was_initialized \/ probe = "ok"

\* what the run of the external summarizer can do: exit with code 0 and a
\* stdout, exit with another code, time out, or fail to start
RunExit0(stdout) == [kind |-> "exit0", stdout |-> stdout]
RunNonzero == [kind |-> "nonzero", stdout |-> <<>>]
RunTimeout == [kind |-> "timeout", stdout |-> <<>>]
RunOSError == [kind |-> "oserror", stdout |-> <<>>]

\* str(e) of the exception a failed run ends in
RunError(run) ==
    CASE run.kind = "nonzero" -> "Claude SDK erro (codigo 1): stderr"
      [] run.kind = "timeout" -> "Command '['python3', '-m', 'src', prompt]' timed out after 120 seconds"
      [] OTHER -> "[Errno 2] No such file or directory"

\* a plausible slip: the exit code is not looked at
RanAnyExit(run) == run.kind \in {"exit0", "nonzero"}

\* subprocess.run returned and result.returncode == 0
RanOk(run) == run.kind = "exit0"

\* ClaudeViewer.generate_summary after _initialize_sdk returned sdk_ok; run is
\* what the external summarizer does if it is started
ViewerSummary(conversation_text, summary_type, sdk_ok, run) ==
    IF ~sdk_ok THEN Failure("Claude SDK nao pode ser inicializado")
    ELSE LET prompt == _create_summary_prompt(conversation_text, summary_type)
         IN  IF RanOk(run)
             THEN LET summary_content == ExtractSummary(run.stdout)
                      input_tokens == Len(prompt) \div chars_per_token
                      output_tokens == Len(summary_content) \div chars_per_token
                  IN  [ success |-> TRUE, error |-> "", summary |-> Strip(summary_content),
                        type |-> summary_type,
                        metrics |-> [ input_tokens |-> input_tokens,
                                      output_tokens |-> output_tokens,
                                      cost |-> CostMicro(input_tokens, output_tokens),
                                      summary_length |-> Len(summary_content) ],
                        session_metadata |-> NoMetadata, generated_at |-> <<>>,
                        conversation_length |-> 0, summary_id |-> <<>> ]
             ELSE Failure(RunError(run))

\* whether ClaudeViewer.generate_summary starts the external summarizer
ViewerRuns(sdk_ok) == sdk_ok

\* stdout without the anchor: 'Resumo curto\n'
PlainOutput ==
    <<82, 101, 115, 117, 109, 111, 32, 99, 117, 114, 116, 111, 10>>

\* stdout with a header, the anchor, a response of 76 characters and the metrics lines: 'U+1F916 Claude Code SDK\nU+1F4DD Claude:\n**Contexto**: projeto de visualizador de sessoes\n**Resultado**: resumo salvo\nU+1F4CA Tokens: 10\nU+1F4B0 Custo: 0.01\n'
AnchoredOutput ==
    <<129302, 32, 67, 108, 97, 117, 100, 101, 32, 67, 111, 100, 101, 32, 83, 68, 75, 10,
    128221, 32, 67, 108, 97, 117, 100, 101, 58, 10, 42, 42, 67, 111, 110, 116, 101, 120, 116,
    111, 42, 42, 58, 32, 112, 114, 111, 106, 101, 116, 111, 32, 100, 101, 32, 118, 105, 115,
    117, 97, 108, 105, 122, 97, 100, 111, 114, 32, 100, 101, 32, 115, 101, 115, 115, 111, 101,
    115, 10, 42, 42, 82, 101, 115, 117, 108, 116, 97, 100, 111, 42, 42, 58, 32, 114, 101, 115,
    117, 109, 111, 32, 115, 97, 108, 118, 111, 10, 128202, 32, 84, 111, 107, 101, 110, 115, 58,
    32, 49, 48, 10, 128176, 32, 67, 117, 115, 116, 111, 58, 32, 48, 46, 48, 49, 10>>


-----------------------------------------------------------------------------
(* Specification of the extraction of the summary from the output of the   *)
(* external summarizer: the output is drawn from the texts of a few lines, *)
(* one step runs ClaudeViewer.generate_summary on it.                      *)

\* how many lines the output holds at most
MaxOutLines == 4

\* a line as long as a response taken as extracted cleanly, and a short one
LongLine == [i \in 1..min_clean_length |-> LetterA]
ShortLine == <<LetterB>>
ContextoLine == ContextoMark \o <<SP, LetterA>>
MetricsLine == TokensPrefix \o <<SP, DIGIT0>>
OutputLines == {Anchor, LongLine, ShortLine, ContextoLine, MetricsLine}

InitAnchor ==
    /\ NoServer
    /\ \E ls \in SeqsUpTo(OutputLines, MaxOutLines) : arg = Join(ls, <<NL>>) \o <<NL>>
    /\ ret = <<>>
    /\ pc = "call"

AnchorExtract ==
    /\ pc = "call"
    /\ ret' = ViewerSummary(<<LetterA>>, "conciso", TRUE, RunExit0(arg)).summary
    /\ pc' = "done"
    /\ UNCHANGED <<arg, mainvars>>

SpecAnchor == InitAnchor /\ [][AnchorExtract]_vars

\* the summary the contract of the extraction gives: from the line after the
\* first line that holds the anchor up to the first metrics line, or the whole
\* output when no line holds the anchor
ContractSummary(stdout) ==
    LET lines == SplitLines(Strip(stdout))
        hits  == {k \in 1..Len(lines) : Contains(lines[k], Anchor)}
    IN  IF hits = {} THEN Strip(stdout)
        ELSE Strip(Join(UntilMetrics(lines, SetMin(hits) + 1), <<NL>>))

\* C17: when a line of the raw output holds the anchor, the summary returned
\* is the text after the anchor, up to the metrics lines; when no line holds
\* it, the summary returned is the whole raw output.
C17_AnchorExtraction ==
    (pc = "done") => (ret = ContractSummary(arg))

-----------------------------------------------------------------------------
(* The summarizer (SessionSummarizer) and its cache. *)

\* SessionSummarizer._get_cache_key: the digest of "directory:session_id:type"
_get_cache_key(directory, session_id, summary_type) ==
    Md5Hex(directory \o <<COLON>> \o session_id \o <<COLON>> \o TypeChars(summary_type))

EmptyCache == [k \in {} |-> Failure("")]

\* a plausible slip: a cached entry is used only while the session file exists
CacheHasIfFile(c, key, file_exists) == key \in DOMAIN c /\ file_exists

\* "if cache_key in self.cache"; the session file is not looked at
CacheHas(c, key, file_exists) == key \in DOMAIN c

\* a plausible slip: the result is returned without being stored
CachePutNothing(c, key, result) == c

\* self.cache[cache_key] = final_result
CachePut(c, key, result) ==
    [k \in DOMAIN c \cup {key} |-> IF k = key THEN result ELSE c[k]]

\* SessionSummarizer._get_session_metadata: msg.get raises on a message that
\* is no dict; the timestamps and the duration are not modelled
MetadataRaises(messages) == \E i \in 1..Len(messages) : ~messages[i].isdict

_get_session_metadata(messages) ==
    [ total_messages |-> Len(messages),
      user_messages |-> Cardinality({i \in 1..Len(messages) : messages[i].type = "user"}),
      assistant_messages |->
          Cardinality({i \in 1..Len(messages) : messages[i].type = "assistant"}),
      custom_edit |-> FALSE, estimated_messages |-> 0 ]

\* what one call left behind besides its result
Outcome(result, c, inited, calls, read, hit, conversation, viewer, viewer_result) ==
    [ result |-> result, cache |-> c, initialized |-> inited, calls |-> calls,
      read |-> read, hit |-> hit, conversation |-> conversation,
      viewer |-> viewer, viewer_result |-> viewer_result ]
\* what the external service did in a call of ClaudeViewer.generate_summary
External(sdk_ok, run) == IF ~sdk_ok THEN "unavailable" ELSE run.kind
\* a plausible slip: only the empty string is rejected
RejectsOnlyEmpty(text) == text = <<>>
\* "if not conversation_text.strip()" and "if not custom_content.strip()"
RejectsEmpty(text) == IsBlank(text)

\* a plausible slip: the result of the external service is stored under the
\* fingerprint as it came, before it is known to have succeeded
GenerateCachingFailures(c, fs, inited, directory, session_id, summary_type, probe, run, t) ==
    LET cache_key == _get_cache_key(directory, session_id, summary_type)
        session_data == _load_session_file(fs, directory, session_id)
        conversation_text == _extract_conversation(session_data.messages)
        sdk_ok == _initialize_sdk(inited, probe)
        calls == IF ViewerRuns(sdk_ok) THEN 1 ELSE 0
        summary_result == ViewerSummary(conversation_text, summary_type, sdk_ok, run)
        stored == [ summary_result EXCEPT
                        !.type = summary_type, !.generated_at = IsoFormat(t),
                        !.conversation_length = Len(conversation_text) ]
    IN  IF CacheHas(c, cache_key, TRUE)
        THEN Outcome(c[cache_key], c, inited, 0, FALSE, TRUE, <<>>, FALSE, Failure(""))
        ELSE IF ~session_data.ok
        THEN Outcome(Failure("Nao foi possivel carregar sessao"), c, inited, 0,
                     TRUE, FALSE, <<>>, FALSE, Failure(""))
        ELSE IF RejectsEmpty(conversation_text)
        THEN Outcome(Failure("Conversa vazia ou nao processavel"), c, inited, 0,
                     TRUE, FALSE, conversation_text, FALSE, Failure(""))
        ELSE Outcome(stored, CachePut(c, cache_key, stored), sdk_ok, calls, TRUE, FALSE,
                     conversation_text, TRUE, summary_result)

\* SessionSummarizer.generate_summary.  probe and run are what the external
\* programs do if they are started, t is what datetime.now() gives if read.
\* calls counts the runs of the external summarizer, read tells whether the
\* session file was opened, viewer whether ClaudeViewer.generate_summary ran.
generate_summary(c, fs, inited, directory, session_id, summary_type, probe, run, t) ==
    LET cache_key == _get_cache_key(directory, session_id, summary_type)
        path == SessionFilePath(directory, session_id)
    IN  IF CacheHas(c, cache_key, fs[path].exists)
        THEN Outcome(c[cache_key], c, inited, 0, FALSE, TRUE, <<>>, FALSE, Failure(""))
        ELSE
        LET session_data == _load_session_file(fs, directory, session_id)
        IN  IF ~session_data.ok
            THEN Outcome(Failure("Nao foi possivel carregar sessao"), c, inited, 0,
                         TRUE, FALSE, <<>>, FALSE, Failure(""))
            ELSE
            LET conversation_text == _extract_conversation(session_data.messages)
            IN  IF RejectsEmpty(conversation_text)
                THEN Outcome(Failure("Conversa vazia ou nao processavel"), c, inited, 0,
                             TRUE, FALSE, conversation_text, FALSE, Failure(""))
                ELSE
                LET sdk_ok == _initialize_sdk(inited, probe)
                    calls == IF ViewerRuns(sdk_ok) THEN 1 ELSE 0
                    summary_result == ViewerSummary(conversation_text, summary_type, sdk_ok, run)
                IN  IF ~summary_result.success
                    THEN Outcome(summary_result, c, sdk_ok, calls, TRUE, FALSE,
                                 conversation_text, TRUE, summary_result)
                    ELSE IF MetadataRaises(session_data.messages)
                    THEN Outcome(Failure("Erro interno: 'int' object has no attribute 'get'"),
                                 c, sdk_ok, calls, TRUE, FALSE, conversation_text,
                                 TRUE, summary_result)
                    ELSE
                    LET final_result ==
                            [ success |-> TRUE, error |-> "",
                              summary |-> summary_result.summary,
                              type |-> summary_type,
                              metrics |-> summary_result.metrics,
                              session_metadata |-> _get_session_metadata(session_data.messages),
                              generated_at |-> IsoFormat(t),
                              conversation_length |-> Len(conversation_text),
                              summary_id |-> <<>> ]
                    IN  Outcome(final_result, CachePut(c, cache_key, final_result), sdk_ok,
                                calls, TRUE, FALSE, conversation_text, TRUE, summary_result)

\* s.count(p) for a p that cannot overlap itself
CountOccurrences(s, p) ==
    Cardinality({i \in 0..(Len(s) - Len(p)) : SubSeq(s, i + 1, i + Len(p)) = p})

\* SessionSummarizer.generate_summary_from_content; it does not use the cache
\* (the cache field of its outcome is empty and ignored)
generate_summary_from_content(inited, custom_content, summary_type, probe, run, t) ==
    IF RejectsEmpty(custom_content)
    THEN Outcome(Failure("Conteudo customizado vazio"), EmptyCache, inited, 0, FALSE, FALSE,
                 custom_content, FALSE, Failure(""))
    ELSE
    LET sdk_ok == _initialize_sdk(inited, probe)
        calls == IF ViewerRuns(sdk_ok) THEN 1 ELSE 0
        summary_result == ViewerSummary(custom_content, summary_type, sdk_ok, run)
    IN  IF ~summary_result.success
        THEN Outcome(summary_result, EmptyCache, sdk_ok, calls, FALSE, FALSE,
                     custom_content, TRUE, summary_result)
        ELSE
        LET complete_result ==
                [ success |-> TRUE, error |-> "",
                  summary |-> summary_result.summary,
                  type |-> summary_type,
                  metrics |-> summary_result.metrics,
                  session_metadata |->
                      [ total_messages |-> 0, user_messages |-> 0, assistant_messages |-> 0,
                        custom_edit |-> TRUE,
                        estimated_messages |->
                            CountOccurrences(custom_content, SubSeq(UserTag, 1, Len(UserTag) - 1))
                            + CountOccurrences(custom_content,
                                               SubSeq(ClaudeTag, 1, Len(ClaudeTag) - 1)) ],
                  generated_at |-> IsoFormat(t),
                  conversation_length |-> Len(custom_content),
                  summary_id |-> <<>> ]
        IN  Outcome(complete_result, EmptyCache, sdk_ok, calls, FALSE, FALSE,
                    custom_content, TRUE, summary_result)

-----------------------------------------------------------------------------
(* Specification of the server: the summarize handler of the viewer, the   *)
(* direct calls of the summarizer, the deletion of a session and the       *)
(* writes of the session files by their owner.                             *)

\* how many operations a run of the server performs
MaxOps == 3

Directories == {<<112>>}
SessionIds == {<<LetterA>>, <<LetterB>>}
ValidTypes == {"conciso", "detalhado", "bullet_points"}
\* the summary_type values a request carries; "outro" stands for any invalid
\* one, which the handler turns into "conciso"
RequestTypes == {"detalhado", "outro"}

SessionPaths == {SessionFilePath(d, s) : d \in Directories, s \in SessionIds}
SummaryPaths == {_get_session_summary_path(d, s) : d \in Directories, s \in SessionIds}

\* a conversation of two turns
TalkFile ==
    FileOf(<<JsonLine(Event("user", StrContent(<<LetterA>>))),
             BadLine,
             JsonLine(Event("assistant", ListContent(<<TextBlock(<<LetterB>>),
                                                        OtherBlock("tool_use")>>)))>>)
\* a session without any text
SilentFile ==
    FileOf(<<JsonLine(Event("assistant", ListContent(<<OtherBlock("tool_use")>>))),
             JsonLine(EventNoMessage("user"))>>)
\* a conversation whose first line is a JSON number
NumberFile ==
    FileOf(<<JsonLine(NonDict), JsonLine(Event("user", StrContent(<<LetterB>>)))>>)

SessionFiles == {TalkFile, SilentFile, NumberFile}

Probes == {"ok", "fail"}
Runs == {RunExit0(PlainOutput), RunExit0(AnchoredOutput), RunNonzero, RunTimeout, RunOSError}

CustomContents == {<<>>, <<SP, NL>>, <<LetterA>>}

NoPrev == [t \in {} |-> [result |-> Failure(""), calls |-> 0]]

\* whether the session file can be loaded and holds no text to summarize
EmptySession(fs, directory, session_id) ==
    /\ _load_session_file(fs, directory, session_id).ok
    /\ IsBlank(_extract_conversation(_load_session_file(fs, directory, session_id).messages))

\* the record of one operation: its arguments, what it returned and did, and
\* what the request before it with the same arguments returned and did
Op(op, directory, session_id, summary_type, o, response, content, external) ==
    LET triple == <<directory, session_id, summary_type>>
        known  == op = "summarize" /\ triple \in DOMAIN prev
    IN  [ op |-> op, directory |-> directory, session_id |-> session_id,
          type |-> summary_type, content |-> content,
          result |-> o.result, response |-> response,
          calls |-> o.calls, read |-> o.read, hit |-> o.hit,
          conversation |-> o.conversation,
          viewer |-> o.viewer, viewer_result |-> o.viewer_result,
          external |-> IF o.viewer THEN external ELSE "none",
          empty_session |-> op = "summarize" /\ EmptySession(files, directory, session_id),
          had_prev |-> known,
          prev_result |-> IF known THEN prev[triple].result ELSE Failure(""),
          prev_calls |-> IF known THEN prev[triple].calls ELSE 0 ]

NoOutcome == Outcome(Failure(""), EmptyCache, FALSE, 0, FALSE, FALSE, <<>>, FALSE, Failure(""))

Init ==
    /\ files = [p \in SessionPaths |-> TalkFile]
    /\ store = [p \in SummaryPaths |-> NoSummaryFile]
    /\ cache = EmptyCache
    /\ initialized = FALSE
    /\ now = 0
    /\ extCalls = 0
    /\ prev = NoPrev
    /\ nops = 0
    /\ last = [ op |-> "none", directory |-> <<>>, session_id |-> <<>>, type |-> "",
                content |-> <<>>, result |-> Failure(""), response |-> Failure(""),
                calls |-> 0, read |-> FALSE, hit |-> FALSE, conversation |-> <<>>,
                viewer |-> FALSE, viewer_result |-> Failure(""),
                external |-> "none", empty_session |-> FALSE,
                had_prev |-> FALSE, prev_result |-> Failure(""), prev_calls |-> 0 ]
    /\ arg = <<>>
    /\ ret = <<>>
    /\ pc = "server"

\* ViewerHandler.handle_summarize_request: the summary type is normalised,
\* the summary generated and, if that succeeded, saved; the id of the saved
\* summary is written into the result, which is the very dict the cache holds
HandleSummarize(directory, session_id, request_type, probe, run, t1, t2) ==
    LET summary_type == IF request_type \in ValidTypes THEN request_type ELSE "conciso"
        cache_key == _get_cache_key(directory, session_id, summary_type)
        triple == <<directory, session_id, summary_type>>
    IN  \E o \in {generate_summary(cache, files, initialized, directory, session_id,
                                   summary_type, probe, run, t1)} :
        \E saved \in {save_summary(store, directory, session_id, o.result, IsoFormat(t2))} :
        \E response \in {IF o.result.success
                         THEN [o.result EXCEPT !.summary_id = saved.id]
                         ELSE o.result} :
            /\ store' = IF o.result.success THEN saved.store ELSE store
            /\ cache' = IF o.result.success /\ cache_key \in DOMAIN o.cache
                        THEN [o.cache EXCEPT ![cache_key] = response]
                        ELSE o.cache
            /\ initialized' = o.initialized
            /\ extCalls' = extCalls + o.calls
            /\ now' = IF o.result.success THEN t2 ELSE now
            /\ prev' = [x \in DOMAIN prev \cup {triple} |->
                           IF x = triple THEN [result |-> response, calls |-> o.calls]
                           ELSE prev[x]]
            /\ last' = Op("summarize", directory, session_id, summary_type, o, response, <<>>,
                          External(_initialize_sdk(initialized, probe), run))

\* whether a request gets as far as ClaudeViewer.generate_summary
ReachesViewer(directory, session_id, summary_type) ==
    /\ ~CacheHas(cache, _get_cache_key(directory, session_id, summary_type),
                 files[SessionFilePath(directory, session_id)].exists)
    /\ _load_session_file(files, directory, session_id).ok
    /\ ~RejectsEmpty(_extract_conversation(
                         _load_session_file(files, directory, session_id).messages))

\* "claude --help" is run only while the SDK is not initialized
ProbeChoices == IF initialized THEN {"ok"} ELSE Probes

\* the ticks two later reads of the clock give: in the server specification
\* every read gives a later tick
LaterReads(t) == {t + 1}

Summarize ==
    /\ nops < MaxOps
    /\ \E directory \in Directories, session_id \in SessionIds, request_type \in RequestTypes :
          \E t1 \in LaterReads(now) : \E t2 \in LaterReads(t1) :
             IF ReachesViewer(directory, session_id,
                              IF request_type \in ValidTypes THEN request_type ELSE "conciso")
             THEN \E probe \in ProbeChoices :
                     \E run \in (IF probe = "ok" THEN Runs ELSE {RunOSError}) :
                        HandleSummarize(directory, session_id, request_type, probe, run, t1, t2)
             ELSE HandleSummarize(directory, session_id, request_type, "fail", RunOSError, t1, t2)
    /\ nops' = nops + 1
    /\ UNCHANGED <<files, arg, ret, pc>>

\* a direct call of SessionSummarizer.generate_summary_from_content
SummarizeContent ==
    /\ nops < MaxOps
    /\ \E custom_content \in CustomContents, summary_type \in {"conciso"} :
       \E probe \in (IF RejectsEmpty(custom_content) THEN {"fail"} ELSE ProbeChoices) :
       \E run \in (IF probe = "ok" THEN Runs ELSE {RunOSError}) :
       \E t \in LaterReads(now) :
          \E o \in {generate_summary_from_content(initialized, custom_content, summary_type,
                                                   probe, run, t)} :
              /\ initialized' = o.initialized
              /\ extCalls' = extCalls + o.calls
              /\ now' = IF o.result.success THEN t ELSE now
              /\ last' = Op("content", <<>>, <<>>, summary_type, o, o.result, custom_content,
                            External(_initialize_sdk(initialized, probe), run))
    /\ nops' = nops + 1
    /\ UNCHANGED <<files, store, cache, prev, arg, ret, pc>>

\* SessionSummarizer.clear_cache
\* a plausible slip: clear_cache leaves the entries where they are
ClearCacheKeeps ==
    /\ nops < MaxOps
    /\ cache' = cache
    /\ prev' = NoPrev
    /\ last' = Op("clear", <<>>, <<>>, "", NoOutcome, Failure(""), <<>>, "none")
    /\ nops' = nops + 1
    /\ UNCHANGED <<files, store, initialized, now, extCalls, arg, ret, pc>>

\* SessionSummarizer.clear_cache
ClearCache ==
    /\ nops < MaxOps
    /\ cache' = EmptyCache
    /\ prev' = NoPrev
    /\ last' = Op("clear", <<>>, <<>>, "", NoOutcome, Failure(""), <<>>, "none")
    /\ nops' = nops + 1
    /\ UNCHANGED <<files, store, initialized, now, extCalls, arg, ret, pc>>

\* ViewerHandler.delete_session: the session file is unlinked if it exists
DeleteSession ==
    /\ nops < MaxOps
    /\ \E directory \in Directories, session_id \in SessionIds :
          LET path == SessionFilePath(directory, session_id)
          IN  /\ files' = IF files[path].exists THEN [files EXCEPT ![path] = NoFile] ELSE files
              /\ last' = Op("delete_session", directory, session_id, "", NoOutcome,
                            Failure(""), <<>>, "none")
    /\ nops' = nops + 1
    /\ UNCHANGED <<store, cache, initialized, now, extCalls, prev, arg, ret, pc>>

\* the owner of the session files (Claude Code) rewrites one of them
WriteSession ==
    /\ nops < MaxOps
    /\ \E path \in SessionPaths, f \in SessionFiles :
          /\ files[path] # f
          /\ files' = [files EXCEPT ![path] = f]
    /\ last' = Op("write_session", <<>>, <<>>, "", NoOutcome, Failure(""), <<>>, "none")
    /\ nops' = nops + 1
    /\ UNCHANGED <<store, cache, initialized, now, extCalls, prev, arg, ret, pc>>

Next == Summarize \/ SummarizeContent \/ ClearCache \/ DeleteSession \/ WriteSession

Spec == Init /\ [][Next]_vars

-----------------------------------------------------------------------------
(* Properties of the server. *)

\* the cache key of the request that last records
LastKey(op) == _get_cache_key(op.directory, op.session_id, op.type)

C6_EmptyInputRejected ==
    /\ (last.op = "content" /\ IsBlank(last.content))
           => (~last.result.success /\ last.calls = 0 /\ ~last.viewer)
    /\ (last.op = "summarize" /\ last.empty_session)
           => (~last.result.success /\ last.calls = 0 /\ ~last.viewer)

\* C6, amended: the same, for a generate_summary request that is not answered
\* from the cache.
C6_EmptyInputRejectedUnlessCached ==
    /\ (last.op = "content" /\ IsBlank(last.content))
           => (~last.result.success /\ last.calls = 0 /\ ~last.viewer)
    /\ (last.op = "summarize" /\ last.empty_session /\ ~last.hit)
           => (~last.result.success /\ last.calls = 0 /\ ~last.viewer)

\* a request for a session without text, rejected while the summarizer is available
C6_Witness ==
    /\ last.op = "summarize" /\ last.empty_session /\ ~last.hit
    /\ last.read /\ ~last.result.success /\ initialized

\* C7: when the external summarization fails (the SDK cannot be initialized,
\* the summarizer exits with a nonzero code, times out or cannot be started),
\* ClaudeViewer.generate_summary returns success = false, an error string
\* that is not empty and an empty summary.
C7_RequesterFailureBoundary ==
    (last.viewer /\ last.external # "exit0")
        => /\ ~last.viewer_result.success
           /\ last.viewer_result.error # ""
           /\ last.viewer_result.summary = <<>>

\* the summarizer was started and exited with a nonzero code
C7_Witness ==
    last.viewer /\ last.external = "nonzero" /\ last.calls = 1 /\ ~last.viewer_result.success

\* C10: a generate_summary request whose cache key is in the cache returns the
\* cached entry, does not open the session file and does not run the external
\* summarizer, whatever the session file holds; and an entry stays in the
\* cache until clear_cache.
C10_CachedEntryServed ==
    [][ /\ (last'.op = "summarize" /\ LastKey(last') \in DOMAIN cache)
            => /\ last'.hit
               /\ last'.result = cache[LastKey(last')]
               /\ ~last'.read
               /\ last'.calls = 0
               /\ extCalls' = extCalls
        /\ (last'.op # "clear") => (DOMAIN cache \subseteq DOMAIN cache')
      ]_vars

\* a request answered from the cache after the session file was deleted
C10_Witness ==
    /\ last.op = "summarize" /\ last.hit /\ last.result.success
    /\ ~files[SessionFilePath(last.directory, last.session_id)].exists

\* the session file of the request that last records
LastFile(op) == files[SessionFilePath(op.directory, op.session_id)]

\* C16, as stated: generate_summary for a session whose file is absent
\* returns success = false with an error message and an empty summary, does
\* not run the external summarizer and adds no cache entry.
C16_SessionNotFound ==
    [][ (last'.op = "summarize" /\ ~LastFile(last').exists)
            => /\ ~last'.result.success
               /\ last'.result.error = "Nao foi possivel carregar sessao"
               /\ last'.result.summary = <<>>
               /\ last'.calls = 0
               /\ extCalls' = extCalls
               /\ DOMAIN cache' = DOMAIN cache
      ]_vars

\* C16, amended: the same, for a request whose cache key is not in the cache.
C16_SessionNotFoundUnlessCached ==
    [][ (/\ last'.op = "summarize"
         /\ ~LastFile(last').exists
         /\ LastKey(last') \notin DOMAIN cache)
            => /\ ~last'.result.success
               /\ last'.result.error = "Nao foi possivel carregar sessao"
               /\ last'.result.summary = <<>>
               /\ last'.calls = 0
               /\ extCalls' = extCalls
               /\ DOMAIN cache' = DOMAIN cache
      ]_vars

\* a request for a session without file and without cached result, made
\* while the cache holds the result of another request
C16_Witness ==
    /\ last.op = "summarize" /\ ~LastFile(last).exists /\ ~last.hit
    /\ ~last.result.success /\ last.read
    /\ initialized /\ DOMAIN cache # {}

\* C19, as stated: the summarize handler appends to the store only as the
\* result of an external generation that succeeded during that request; a
\* request that returns success = false, and one that runs no external
\* generation, leave the store as it was.
C19_StoredOnlyFromGeneration ==
    [][ (last'.op = "summarize" /\ store' # store)
            => /\ last'.result.success
               /\ last'.viewer
               /\ last'.viewer_result.success
               /\ last'.calls = 1
      ]_vars

\* C20: generate_summary stores a result under the fingerprint exactly when
\* a fresh generation succeeded; a request that returns success = false
\* leaves the cache unchanged, and every cache entry has success = true.
C20_CacheOnlyOnSuccess ==
    [][ /\ (last'.op \in {"summarize", "content"} /\ ~last'.result.success)
            => cache' = cache
        /\ (last'.op = "summarize")
            => /\ DOMAIN cache' \subseteq DOMAIN cache \cup {LastKey(last')}
               /\ (LastKey(last') \in DOMAIN cache' \ DOMAIN cache)
                      <=> (last'.result.success /\ ~last'.hit /\ last'.viewer_result.success)
        /\ \A k \in DOMAIN cache' : cache'[k].success
      ]_vars

\* a request failed by an exception raised after the external service had
\* succeeded, made while the cache holds the result of another request
C20_Witness ==
    /\ last.op = "summarize" /\ ~last.result.success
    /\ last.viewer /\ last.viewer_result.success /\ last.calls = 1
    /\ LastKey(last) \notin DOMAIN cache
    /\ DOMAIN cache # {}

\* C24, as stated: after clear_cache the cache holds no entries, and the
\* next generate_summary request, for whatever fingerprint, reads the session
\* file again and runs the external summarizer again.
C24_ClearThenRegenerate ==
    [][ /\ (last'.op = "clear") => (cache' = EmptyCache)
        /\ (last.op = "clear" /\ last'.op = "summarize")
            => /\ last'.read
               /\ last'.calls = 1
               /\ extCalls' = extCalls + 1
      ]_vars

\* C24, amended: after clear_cache the cache holds no entries, and the next
\* generate_summary request is not answered from the cache: it reads the
\* session file again, and it runs the external summarizer again exactly
\* when the file can be loaded, its conversation is not blank and the SDK is
\* available.
C24_ClearThenNoHit ==
    [][ /\ (last'.op = "clear") => (cache' = EmptyCache)
        /\ (last.op = "clear" /\ last'.op = "summarize")
            => /\ ~last'.hit
               /\ last'.read
               /\ extCalls' = extCalls + last'.calls
               /\ (last'.calls = 1)
                     <=> /\ LastFile(last').exists
                         /\ _load_session_file(files, last'.directory, last'.session_id).ok
                         /\ ~last'.empty_session
                         /\ last'.external # "unavailable"
      ]_vars

\* a request generated a summary although the store of its session holds a
\* summary of its type from an earlier request: the cache was cleared between
C24_Witness ==
    /\ last.op = "summarize" /\ ~last.hit /\ last.calls = 1 /\ last.result.success
    /\ extCalls = 2
    /\ \E f \in {store[_get_session_summary_path(last.directory, last.session_id)]} :
          /\ Len(f.entries) = 2
          /\ f.entries[1].summary_type = last.type
          /\ f.entries[2].summary_type = last.type

\* C27: from the moment a result is stored under a fingerprint until the
\* next clear_cache the entry does not change, whatever the viewer does in
\* between.
C27_CachedEntriesImmutable ==
    [][ (last'.op # "clear")
            => \A k \in DOMAIN cache : k \in DOMAIN cache' /\ cache'[k] = cache[k]
      ]_vars

-----------------------------------------------------------------------------
(* The server loop (run_server): clients connect at any time, the server   *)
(* takes one connection and runs its handler; the summarize handler is     *)
(* taken step by step: cache check, external generation, cache store,     *)
(* save of the summary.                                                    *)

\* how many clients send a summarize request
MaxClients == 2

Clients == 1..MaxClients
ServeDirectory == <<112>>
ServeSession == <<LetterA>>

\* the positions of a request whose handler has started and not returned
Handling == {"check", "generate", "store", "save"}
Serving(pcs) == {c \in DOMAIN pcs : pcs[c] \in Handling}

\* a server that starts a thread for every connection
AcceptsAlways(pcs) == TRUE

\* HTTPServer.serve_forever: the handler of a connection runs inside the loop,
\* which takes the next connection only after the handler has returned
CanAccept(pcs) == Serving(pcs) = {}

ServeType(c) == IF arg[c] \in ValidTypes THEN arg[c] ELSE "conciso"
ServeKey(c) == _get_cache_key(ServeDirectory, ServeSession, ServeType(c))

InitServe ==
    /\ files = [p \in SessionPaths |-> TalkFile]
    /\ store = [p \in SummaryPaths |-> NoSummaryFile]
    /\ cache = EmptyCache
    /\ initialized = FALSE
    /\ now = 0
    /\ extCalls = 0
    /\ prev = <<>>
    /\ nops = 0
    /\ last = <<>>
    /\ arg \in [Clients -> RequestTypes]
    /\ ret = [c \in Clients |-> NoOutcome]
    /\ pc = [c \in Clients |-> "idle"]

\* a client sends its request; the connection waits in the listen queue
Connect(c) ==
    /\ pc[c] = "idle"
    /\ pc' = [pc EXCEPT ![c] = "queued"]
    /\ UNCHANGED <<arg, ret, mainvars>>

\* the server loop takes the connection and calls the handler
Accept(c) ==
    /\ pc[c] = "queued"
    /\ CanAccept(pc)
    /\ pc' = [pc EXCEPT ![c] = "check"]
    /\ UNCHANGED <<arg, ret, mainvars>>

\* generate_summary looks the fingerprint up in the cache
CheckCache(c) ==
    /\ pc[c] = "check"
    /\ IF CacheHas(cache, ServeKey(c), TRUE)
       THEN /\ ret' = [ret EXCEPT ![c] =
                          generate_summary(cache, files, initialized, ServeDirectory,
                                           ServeSession, ServeType(c), "ok", RunOSError, now)]
            /\ pc' = [pc EXCEPT ![c] = "save"]
       ELSE /\ ret' = ret
            /\ pc' = [pc EXCEPT ![c] = "generate"]
    /\ UNCHANGED <<arg, mainvars>>

\* the session is loaded and the external service run
Generate(c) ==
    /\ pc[c] = "generate"
    /\ \E probe \in ProbeChoices :
       \E run \in (IF probe = "ok" THEN Runs ELSE {RunOSError}) :
       \E t \in LaterReads(now) :
       \E o \in {generate_summary(EmptyCache, files, initialized, ServeDirectory,
                                  ServeSession, ServeType(c), probe, run, t)} :
          /\ ret' = [ret EXCEPT ![c] = o]
          /\ initialized' = o.initialized
          /\ extCalls' = extCalls + o.calls
          /\ now' = t
    /\ pc' = [pc EXCEPT ![c] = "store"]
    /\ UNCHANGED <<arg, files, store, cache, last, prev, nops>>

\* "self.cache[cache_key] = final_result", reached only by a successful result
StoreCache(c) ==
    /\ pc[c] = "store"
    /\ cache' = IF ret[c].result.success
                THEN CachePut(cache, ServeKey(c), ret[c].result)
                ELSE cache
    /\ pc' = [pc EXCEPT ![c] = "save"]
    /\ UNCHANGED <<arg, ret, files, store, initialized, now, extCalls, last, prev, nops>>

\* the handler saves a successful result and answers
SaveAndRespond(c) ==
    /\ pc[c] = "save"
    /\ \E t \in LaterReads(now) :
       \E saved \in {save_summary(store, ServeDirectory, ServeSession, ret[c].result,
                                  IsoFormat(t))} :
          IF ret[c].result.success
          THEN /\ store' = saved.store
               /\ now' = t
               /\ ret' = [ret EXCEPT ![c].result.summary_id = saved.id]
               /\ cache' = IF ServeKey(c) \in DOMAIN cache
                           THEN [cache EXCEPT ![ServeKey(c)].summary_id = saved.id]
                           ELSE cache
          ELSE UNCHANGED <<store, now, ret, cache>>
    /\ pc' = [pc EXCEPT ![c] = "done"]
    /\ UNCHANGED <<arg, files, initialized, extCalls, last, prev, nops>>

NextServe ==
    \E c \in Clients :
        \/ Connect(c)
        \/ Accept(c)
        \/ CheckCache(c)
        \/ Generate(c)
        \/ StoreCache(c)
        \/ SaveAndRespond(c)

SpecServe == InitServe /\ [][NextServe]_vars

\* C18: summarize requests are processed one at a time: while the handler of
\* one request is between its cache check and its answer no other request is
\* at any step of its handler, and no two external generations for the same
\* fingerprint are in progress together.
C18_NoOverlap ==
    /\ Cardinality(Serving(pc)) <= 1
    /\ \A c1, c2 \in Clients :
          (c1 # c2 /\ pc[c1] = "generate" /\ pc[c2] = "generate")
              => ServeKey(c1) # ServeKey(c2)

\* an external generation is in progress while a request with the same
\* fingerprint waits for the server
C18_Witness ==
    \E c1, c2 \in Clients :
        /\ pc[c1] = "generate"
        /\ pc[c2] = "queued"
        /\ ServeKey(c1) = ServeKey(c2)

-----------------------------------------------------------------------------
(* One call of ClaudeViewer.generate_summary, taken in two steps: the      *)
(* initialization of the SDK, and the run of the external summarizer with  *)
(* what follows it.  extCalls counts the runs of the external summarizer.  *)

\* how many lines the stdout of the external summarizer holds at most
MaxRunLines == 2

\* the lines of a stdout, a line of one space among them
ViewerLines == OutputLines \cup {<<SP>>}
ViewerRunChoices ==
    {RunExit0(Join(ls, <<NL>>) \o <<NL>>) : ls \in SeqsUpTo(ViewerLines, MaxRunLines)}
        \cup {RunNonzero, RunTimeout, RunOSError}

\* conversations whose lengths make every remainder of the token estimate
ViewerTexts == {LetterText(n, 0) : n \in 1..chars_per_token}

\* a plausible slip: a failed run is tried once more
RetryAfterFailure(attempts) == IF attempts < 2 THEN "run" ELSE "done"

\* the except block (lines 191-197) returns the failure
AfterFailure(attempts) == "done"

InitViewer ==
    /\ files = <<>>
    /\ store = <<>>
    /\ cache = <<>>
    /\ \E inited \in BOOLEAN, probe \in Probes :
          /\ initialized = inited
          /\ \E text \in ViewerTexts, type \in {"conciso", "outro"}, run \in ViewerRunChoices :
                arg = [text |-> text, type |-> type, probe |-> probe, run |-> run]
    /\ now = 0
    /\ extCalls = 0
    /\ last = <<>>
    /\ prev = <<>>
    /\ nops = 0
    /\ ret = Failure("")
    /\ pc = "call"

\* lines 91-96: without the SDK the failure is returned at once
ViewerEnter ==
    /\ pc = "call"
    /\ initialized' = _initialize_sdk(initialized, arg.probe)
    /\ ret' = IF initialized' THEN ret
              ELSE ViewerSummary(arg.text, arg.type, FALSE, arg.run)
    /\ pc' = IF initialized' THEN "run" ELSE "done"
    /\ UNCHANGED <<arg, files, store, cache, now, extCalls, last, prev, nops>>

\* lines 98-197: the external summarizer is run and its outcome turned into
\* the result
ViewerRun ==
    /\ pc = "run"
    /\ extCalls' = extCalls + 1
    /\ ret' = ViewerSummary(arg.text, arg.type, TRUE, arg.run)
    /\ pc' = IF ret'.success THEN "done" ELSE AfterFailure(extCalls')
    /\ UNCHANGED <<arg, files, store, cache, initialized, now, last, prev, nops>>

SpecViewer == InitViewer /\ [][ViewerEnter \/ ViewerRun]_vars

\* C21: a call of ClaudeViewer.generate_summary runs the external summarizer
\* at most once, and when that run fails the call has returned the failure,
\* without a second run.
C21_SingleAttempt ==
    /\ extCalls <= 1
    /\ (extCalls = 1 /\ ~RanOk(arg.run))
          => /\ pc = "done"
             /\ ~ret.success
             /\ ret.error = RunError(arg.run)
             /\ ret.summary = <<>>

\* the one run of the external summarizer timed out
C21_Witness ==
    /\ pc = "done" /\ extCalls = 1 /\ arg.run.kind = "timeout"
    /\ ~ret.success

\* C25: on a successful result input_tokens is the integer quotient by 4 of
\* the length of the prompt, output_tokens the integer quotient by 4 of the
\* length of the summary returned, and summary_length the length of the
\* summary returned.
C25_TokenEstimates ==
    (pc = "done" /\ ret.success)
        => /\ ret.metrics.input_tokens
                 = Len(_create_summary_prompt(arg.text, arg.type)) \div 4
           /\ ret.metrics.output_tokens = Len(ret.summary) \div 4
           /\ ret.metrics.summary_length = Len(ret.summary)

\* a successful result whose summary is a part of the stdout and whose
\* length is no multiple of 4
C25_Witness ==
    /\ pc = "done" /\ ret.success
    /\ Len(ret.summary) % 4 # 0
    /\ Len(ret.summary) + 1 < Len(arg.run.stdout)
    /\ ret.metrics.output_tokens > 0
    /\ Len(_create_summary_prompt(arg.text, arg.type)) % 4 # 0

-----------------------------------------------------------------------------
(* Two summarize requests, one after the other, for sessions whose         *)
(* directory and session names may hold a colon.  arg records, for every   *)
(* cache key, the request that stored the entry, ret the request served    *)
(* last, both as the requests carried them.                                *)

\* 'a', 'b', 'a:b', 'b:a'
KeyNames ==
    {<<LetterA>>, <<LetterB>>, <<LetterA, COLON, LetterB>>, <<LetterB, COLON, LetterA>>}
KeyFormats == {"conciso", "outro"}

InitKey ==
    /\ files = [p \in {SessionFilePath(d, x) : d \in KeyNames, x \in KeyNames} |-> TalkFile]
    /\ store = [p \in {_get_session_summary_path(d, x) : d \in KeyNames, x \in KeyNames}
                   |-> NoSummaryFile]
    /\ cache = EmptyCache
    /\ initialized = TRUE
    /\ now = 0
    /\ extCalls = 0
    /\ prev = NoPrev
    /\ nops = 0
    /\ last = [ op |-> "none", directory |-> <<>>, session_id |-> <<>>, type |-> "",
                content |-> <<>>, result |-> Failure(""), response |-> Failure(""),
                calls |-> 0, read |-> FALSE, hit |-> FALSE, conversation |-> <<>>,
                viewer |-> FALSE, viewer_result |-> Failure(""),
                external |-> "none", empty_session |-> FALSE,
                had_prev |-> FALSE, prev_result |-> Failure(""), prev_calls |-> 0 ]
    /\ arg = <<>>
    /\ ret = <<>>
    /\ pc = "server"

\* one request through the handler; the external summarizer succeeds
KeyRequest ==
    /\ pc \in {"server", "first"}
    /\ \E directory \in KeyNames, session_id \in KeyNames, request_type \in KeyFormats :
          /\ HandleSummarize(directory, session_id, request_type, "ok",
                             RunExit0(PlainOutput), now + 1, now + 2)
          /\ ret' = <<directory, session_id, request_type>>
          /\ arg' = IF last'.hit THEN arg
                    ELSE [k \in DOMAIN arg \cup {LastKey(last')} |->
                             IF k = LastKey(last') THEN ret' ELSE arg[k]]
    /\ pc' = IF pc = "server" THEN "first" ELSE "second"
    /\ UNCHANGED <<files, nops>>

SpecKey == InitKey /\ [][KeyRequest]_vars

\* C26: two requests whose (directory, session_id, format) differ in a
\* component do not share a cache slot: a request answered from the cache is
\* the request that stored the entry.
C26_FingerprintSeparatesSlots ==
    (pc \in {"first", "second"} /\ last.hit) => (arg[LastKey(last)] = ret)

=============================================================================
